---- MODULE Spec2Model ----
(***************************************************************************)
(* Verification model of the leo-backend knowledge engine:                 *)
(*   - conversation memory compaction (agent-runtime MemoryManager),       *)
(*   - re-ingestion cost model and the /vectorize route (leo-gateway),     *)
(*   - hybrid retrieval fusion (leo-gateway HybridSearchService),          *)
(*   - sentence-aware chunking (leo-gateway smartSplitText),               *)
(*   - the debounce gate of the Telegram bot (agent-runtime bot.ts),       *)
(*   - /vectorize requests served at the same time (leo-gateway).          *)
(* Each subsystem has its own specification (SpecMem, SpecVec, SpecSearch, *)
(* SpecFallback, SpecChunk, SpecBot, SpecCon and their variants) over its  *)
(* own variables; the other variables stay at their initial value.         *)
(***************************************************************************)
EXTENDS Integers, Sequences, FiniteSets, TLC

VARIABLES
    \* ---- conversation memory (agent-runtime) ----
    maxMessages,      \* config.maxMessages
    keepMessages,     \* config.keepMessages
    agent_messages,   \* rows of one session, in created_at order
    agent_summaries,  \* summary texts of one session, in created_at order
    nextId,           \* source of fresh row ids (generateCuid)
    memPc,            \* position of the saveMessage call in flight
    memLocal,         \* locals of summarizeAndCleanup
    memCall,          \* record of the saveMessage call in flight / last finished
    memReturn,        \* how the last saveMessage ended
    memContext,       \* value last returned by getContextForPrompt
    \* ---- re-ingestion cost model and POST /vectorize (leo-gateway) ----
    file_processing_cache,  \* FileVersionRecord rows, in created_at order
    knowledge_bases,        \* document rows
    document_chunks,        \* chunk rows
    chroma,                 \* vectors stored in the agent collections
    token_balance,          \* users.token_balance of the requesting user
    token_transactions,     \* token_transactions rows
    vecPc,                  \* position of the /vectorize request in flight
    vecReq,                 \* its parsed body and locals
    vecResponse,            \* HTTP status of the last finished request
    vecBefore,              \* the stores as they were when the request began
    vecCount,               \* requests started (also the source of kbId)
    vecFaults,              \* failures of the database / vector store so far
    \* ---- hybrid retrieval fusion (leo-gateway) ----
    srchPc,                 \* position of the search() call
    srchLimit,              \* its limit argument
    srchVector,             \* outcome of chromaService.searchDocuments
    srchFts,                \* outcome of ftsService.searchDocuments
    srchMerged,             \* Array.from(resultMap.values())
    srchOut,                \* the array search() returned
    swfPc,                  \* position of the searchWithFallback() call
    swfCall,                \* its limit and what its backends answered
    swfOut,                 \* the array searchWithFallback() returned
    \* ---- sentence-aware chunking (leo-gateway) ----
    chkPc,                  \* position of the smartSplitText call
    chkIn,                  \* its text and options
    chkOut,                 \* the chunks it returned
    \* ---- debounce gate of the bot (agent-runtime) ----
    pendingMessages,        \* the pendingMessages map: entry of each user
    botTimers,              \* armed setTimeout timers of each user
    botInFlight,            \* batches of the processMessages calls in flight
    botBatches,             \* batches passed to processMessages so far
    botReceived,            \* texts received from each user, in arrival order
    botNextText,            \* number of the next text to arrive
    \* ---- concurrent POST /vectorize requests (leo-gateway) ----
    conPc,                  \* position of each request
    conOverlap              \* a request began while another was in flight

memVars == <<maxMessages, keepMessages, agent_messages, agent_summaries, nextId,
             memPc, memLocal, memCall, memReturn, memContext>>

vecVars == <<file_processing_cache, knowledge_bases, document_chunks, chroma,
             token_balance, token_transactions, vecPc, vecReq, vecResponse,
             vecBefore, vecCount, vecFaults>>

srchVars == <<srchPc, srchLimit, srchVector, srchFts, srchMerged, srchOut>>

swfVars == <<swfPc, swfCall, swfOut>>

chkVars == <<chkPc, chkIn, chkOut>>

botVars == <<pendingMessages, botTimers, botInFlight, botBatches, botReceived,
             botNextText>>

conVars == <<conPc, conOverlap>>

vars == <<memVars, vecVars, srchVars, swfVars, chkVars, botVars, conVars>>

\* What each subsystem leaves alone.
nonMemVars  == <<vecVars, srchVars, swfVars, chkVars, botVars, conVars>>
nonVecVars  == <<memVars, srchVars, swfVars, chkVars, botVars, conVars>>
nonSrchVars == <<memVars, vecVars, swfVars, chkVars, botVars, conVars>>
nonSwfVars  == <<memVars, vecVars, chkVars, botVars, conVars>>
nonChkVars  == <<memVars, vecVars, srchVars, swfVars, botVars, conVars>>
nonBotVars  == <<memVars, vecVars, srchVars, swfVars, chkVars, conVars>>
nonConVars  == <<memVars, srchVars, swfVars, chkVars, botVars>>

\* ---------------------------------------------------------------------------
\* Bounds
\* ---------------------------------------------------------------------------
MaxSaves  == 4     \* saveMessage calls explored per behaviour
MaxConfig == 3     \* largest maxMessages / keepMessages explored
MaxVectorize == 3  \* /vectorize requests explored per behaviour
MaxFaults == 1     \* database / vector-store failures explored per behaviour
MaxLimit == 3      \* largest limit passed to search()
MaxTextLen == 5    \* longest text passed to smartSplitText
MaxChunkSize == 3  \* largest maxChunkSize passed to smartSplitText
MaxOverlap == 2    \* largest overlapSentences passed to smartSplitText
MaxFirstParagraph == 4  \* longest first paragraph of a two-paragraph text
MaxLastParagraph == 1   \* longest last paragraph of a two-paragraph text
MaxTexts == 4      \* text messages the bot receives per behaviour
MaxUploads == 3    \* /vectorize requests that may run at the same time

\* ---------------------------------------------------------------------------
\* Generic helpers
\* ---------------------------------------------------------------------------
Min(a, b) == IF a < b THEN a ELSE b
Max(a, b) == IF a > b THEN a ELSE b

Reverse(s) == [i \in 1..Len(s) |-> s[Len(s) - i + 1]]

\* Array.prototype.slice(start) with a possibly negative start.  Note that
\* slice(-0) is slice(0): the whole array.
JsSliceFrom(arr, start) ==
    LET len  == Len(arr)
        from == IF start < 0 THEN Max(len + start, 0) ELSE Min(start, len)
    IN  SubSeq(arr, from + 1, len)

\* Array.prototype.slice(0, end) with a possibly negative end.
JsSliceTo(arr, end) ==
    LET len == Len(arr)
        to  == IF end < 0 THEN Max(len + end, 0) ELSE Min(end, len)
    IN  SubSeq(arr, 1, to)

SeqToSet(s) == {s[i] : i \in 1..Len(s)}

\* ---------------------------------------------------------------------------
\* Conversation memory: MemoryManager
\* ---------------------------------------------------------------------------
\* (messageType, content) pairs passed to saveMessage by processMessages
Inbound      == {[messageType |-> "HUMAN", content |-> "question"],
                 [messageType |-> "AI", content |-> "answer"]}
SummaryTexts == {"S1", "S2"}          \* non-empty completions
NoSummary    == "null"

\* SELECT ... ORDER BY created_at DESC LIMIT $3, over rows kept in created_at
\* order.
SelectDescLimit(rows, limit) ==
    [i \in 1..Min(Max(limit, 0), Len(rows)) |-> rows[Len(rows) - i + 1]]

GetRecentMessages_noReverse(rows, limit) == SelectDescLimit(rows, limit)

GetRecentMessages(rows, limit) == Reverse(SelectDescLimit(rows, limit))

GetLatestSummary_oldest(sums) == IF Len(sums) = 0 THEN NoSummary ELSE sums[1]

GetLatestSummary(sums) ==
    IF Len(sums) = 0 THEN NoSummary ELSE SelectDescLimit(sums, 1)[1]

GetContextForPrompt(rows, sums, keep) ==
    [recentMessages |-> GetRecentMessages(rows, keep),
     summary        |-> GetLatestSummary(sums)]

\* llmClient.buildMessages (llm-client.ts lines 170-201) and
\* ChatService.buildMessages (chat.service.ts lines 222-258): the system
\* message carrying the summary, then the recent messages with their roles.
\* id is not a field of a chat message: it names the stored row it came from.
BuildMessages(summary, recentMessages) ==
    <<[role |-> "system", content |-> summary, id |-> 0]>>
        \o [i \in 1..Len(recentMessages) |->
              [role    |-> IF recentMessages[i].messageType = "HUMAN" THEN "user"
                           ELSE "assistant",
               content |-> recentMessages[i].content,
               id      |-> recentMessages[i].id]]

\* processMessages, bot.ts lines 84-93, and ChatService.processMessage,
\* chat.service.ts lines 317-327: buildMessages over the memory context, then
\* chatMessages.push({ role: 'user', content: combinedMessage }).
ChatMessagesFor(context, current) ==
    Append(BuildMessages(context.summary, context.recentMessages),
           [role |-> "user", content |-> current.content, id |-> current.id])

\* const messagesToKeep = messages.slice(-config.keepMessages)
MessagesToKeep(messages, keep) == JsSliceFrom(messages, 0 - keep)

\* DELETE FROM agent_messages WHERE ... AND id NOT IN (idsToKeep)
DeleteNotIn(rows, idsToKeep) == SelectSeq(rows, LAMBDA m : m.id \in idsToKeep)

NoLocal == [messages |-> <<>>, existingSummary |-> NoSummary, summary |-> NoSummary]
NoCall  == [before |-> <<>>, sumsBefore |-> 0, id |-> 0, llm |-> "none",
            dbFault |-> FALSE, sent |-> <<>>, failedBefore |-> FALSE]

\* The call recorded in c did not complete a compaction it attempted.
CallFailed(c) == c.failedBefore \/ c.dbFault \/ c.llm \in {"throw", "empty"}
NoContext == [recentMessages |-> <<>>, summary |-> NoSummary, valid |-> FALSE]

MemInit ==
    /\ maxMessages \in 1..MaxConfig
    /\ keepMessages \in 0..MaxConfig
    /\ agent_messages = <<>>
    /\ agent_summaries = <<>>
    /\ nextId = 1
    /\ memPc = "idle"
    /\ memLocal = NoLocal
    /\ memCall = NoCall
    /\ memReturn = "none"
    /\ memContext = NoContext

\* The call in flight ends: normally, or by an exception reaching the caller.
MemFinish(how) ==
    /\ memPc' = "idle"
    /\ memLocal' = NoLocal
    /\ memReturn' = how

\* saveMessage, lines 178-185: the INSERT of the raw message.
SaveMessage ==
    /\ memPc = "idle"
    /\ nextId <= MaxSaves
    /\ \E m \in Inbound :
         /\ agent_messages' = Append(agent_messages,
                                     [id |-> nextId, messageType |-> m.messageType,
                                      content |-> m.content])
         /\ memCall' = [before |-> agent_messages, sumsBefore |-> Len(agent_summaries),
                        id |-> nextId, llm |-> "none", dbFault |-> FALSE, sent |-> <<>>,
                        failedBefore |-> CallFailed(memCall)]
    /\ nextId' = nextId + 1
    /\ memPc' = "check"
    /\ memReturn' = "none"
    /\ memContext' = NoContext
    /\ UNCHANGED <<maxMessages, keepMessages, agent_summaries, memLocal>>
    /\ UNCHANGED nonMemVars

\* saveMessage when the INSERT itself fails: the error reaches the caller.
SaveMessageInsertFails ==
    /\ memPc = "idle"
    /\ nextId <= MaxSaves
    /\ memCall' = [before |-> agent_messages, sumsBefore |-> Len(agent_summaries),
                   id |-> 0, llm |-> "none", dbFault |-> TRUE, sent |-> <<>>,
                   failedBefore |-> CallFailed(memCall)]
    /\ nextId' = nextId + 1
    /\ memContext' = NoContext
    /\ MemFinish("raised")
    /\ UNCHANGED <<maxMessages, keepMessages, agent_messages, agent_summaries>>
    /\ UNCHANGED nonMemVars

\* Variant of checkAndSummarize that compacts only when the count is exactly
\* maxMessages.
CheckAndSummarize_exactly ==
    /\ memPc = "check"
    /\ LET count == Len(agent_messages)
       IN  IF count = maxMessages
           THEN /\ memPc' = "summarize"
                /\ UNCHANGED <<memLocal, memReturn>>
           ELSE MemFinish("returned")
    /\ UNCHANGED <<maxMessages, keepMessages, agent_messages, agent_summaries,
                   nextId, memCall, memContext>>
    /\ UNCHANGED nonMemVars

\* checkAndSummarize, lines 236-250.
CheckAndSummarize ==
    /\ memPc = "check"
    /\ LET count == Len(agent_messages)
       IN  IF count >= maxMessages
           THEN /\ memPc' = "summarize"
                /\ UNCHANGED <<memLocal, memReturn>>
           ELSE MemFinish("returned")
    /\ UNCHANGED <<maxMessages, keepMessages, agent_messages, agent_summaries,
                   nextId, memCall, memContext>>
    /\ UNCHANGED nonMemVars

\* A read of checkAndSummarize / summarizeAndCleanup outside the try block
\* fails (lines 238, 254, 261): the error reaches the caller of saveMessage.
MemReadFails ==
    /\ memPc \in {"check", "summarize"}
    /\ memCall' = [memCall EXCEPT !.dbFault = TRUE]
    /\ MemFinish("raised")
    /\ UNCHANGED <<maxMessages, keepMessages, agent_messages, agent_summaries,
                   nextId, memContext>>
    /\ UNCHANGED nonMemVars

\* summarizeAndCleanup, lines 252-267: the reads before the completion call.
SummarizeFetch ==
    /\ memPc = "summarize"
    /\ LET messages == GetRecentMessages(agent_messages, maxMessages)
       IN  IF Len(messages) < maxMessages
           THEN /\ MemFinish("returned")
                /\ UNCHANGED memCall
           ELSE /\ memLocal' = [messages |-> messages,
                                existingSummary |-> GetLatestSummary(agent_summaries),
                                summary |-> NoSummary]
                /\ memCall' = [memCall EXCEPT !.sent = [i \in 1..Len(messages) |-> messages[i].id]]
                /\ memPc' = "complete"
                /\ UNCHANGED memReturn
    /\ UNCHANGED <<maxMessages, keepMessages, agent_messages, agent_summaries,
                   nextId, memContext>>
    /\ UNCHANGED nonMemVars

\* The completion call answers (lines 271-295) with a summary text, or with
\* no usable text ("" or a response without choices).
CompleteReturns ==
    /\ memPc = "complete"
    /\ \E s \in SummaryTexts \cup {""} :
         IF s # ""
         THEN /\ memLocal' = [memLocal EXCEPT !.summary = s]
              /\ memCall' = [memCall EXCEPT !.llm = "ok"]
              /\ memPc' = "persist"
              /\ UNCHANGED memReturn
         ELSE /\ memCall' = [memCall EXCEPT !.llm = "empty"]
              /\ MemFinish("returned")
    /\ UNCHANGED <<maxMessages, keepMessages, agent_messages, agent_summaries,
                   nextId, memContext>>
    /\ UNCHANGED nonMemVars

\* Variant of the catch block that lets the error escape.
SummarizeCatch_rethrow == MemFinish("raised")

\* catch (error) { console.error(...) }, lines 319-321.
SummarizeCatch == MemFinish("returned")

\* The completion call throws (line 271); the catch block logs it.
CompleteThrows ==
    /\ memPc = "complete"
    /\ memCall' = [memCall EXCEPT !.llm = "throw"]
    /\ SummarizeCatch
    /\ UNCHANGED <<maxMessages, keepMessages, agent_messages, agent_summaries,
                   nextId, memContext>>
    /\ UNCHANGED nonMemVars

\* INSERT INTO agent_summaries, lines 296-302.
PersistSummary ==
    /\ memPc = "persist"
    /\ agent_summaries' = Append(agent_summaries, memLocal.summary)
    /\ memPc' = "cleanup"
    /\ UNCHANGED <<maxMessages, keepMessages, agent_messages, nextId, memLocal,
                   memCall, memReturn, memContext>>
    /\ UNCHANGED nonMemVars

\* Delete old messages, lines 304-317.
Cleanup ==
    /\ memPc = "cleanup"
    /\ LET messagesToKeep == MessagesToKeep(memLocal.messages, keepMessages)
           idsToKeep      == {messagesToKeep[i].id : i \in 1..Len(messagesToKeep)}
       IN  IF Len(messagesToKeep) > 0
           THEN agent_messages' = DeleteNotIn(agent_messages, idsToKeep)
           ELSE UNCHANGED agent_messages
    /\ MemFinish("returned")
    /\ UNCHANGED <<maxMessages, keepMessages, agent_summaries, nextId, memCall,
                   memContext>>
    /\ UNCHANGED nonMemVars

\* A write inside the try block (the summary INSERT or the DELETE) fails; the
\* catch block logs it.
MemWriteFails ==
    /\ memPc \in {"persist", "cleanup"}
    /\ memCall' = [memCall EXCEPT !.dbFault = TRUE]
    /\ SummarizeCatch
    /\ UNCHANGED <<maxMessages, keepMessages, agent_messages, agent_summaries,
                   nextId, memContext>>
    /\ UNCHANGED nonMemVars

\* getContextForPrompt, lines 229-234, called between saveMessage calls.
GetContext ==
    /\ memPc = "idle"
    /\ memContext.valid = FALSE
    /\ LET r == GetContextForPrompt(agent_messages, agent_summaries, keepMessages)
       IN  memContext' = [recentMessages |-> r.recentMessages, summary |-> r.summary,
                          valid |-> TRUE]
    /\ UNCHANGED <<maxMessages, keepMessages, agent_messages, agent_summaries,
                   nextId, memPc, memLocal, memCall, memReturn>>
    /\ UNCHANGED nonMemVars

\* clearHistory, lines 324-333 (the /clear command), between saveMessage calls.
ClearHistory ==
    /\ memPc = "idle"
    /\ Len(agent_messages) + Len(agent_summaries) > 0
    /\ agent_messages' = <<>>
    /\ agent_summaries' = <<>>
    /\ memCall' = NoCall
    /\ memReturn' = "none"
    /\ memContext' = NoContext
    /\ UNCHANGED <<maxMessages, keepMessages, nextId, memPc, memLocal>>
    /\ UNCHANGED nonMemVars

NextMem ==
    \/ SaveMessage
    \/ SaveMessageInsertFails
    \/ CheckAndSummarize
    \/ MemReadFails
    \/ SummarizeFetch
    \/ CompleteReturns
    \/ CompleteThrows
    \/ PersistSummary
    \/ Cleanup
    \/ MemWriteFails
    \/ GetContext
    \/ ClearHistory

\* ---------------------------------------------------------------------------
\* Re-ingestion cost model (pu-charging service) and POST /vectorize
\* ---------------------------------------------------------------------------
Agents    == {"agent1", "agent2"}
Filenames == {"a.txt", "b.txt"}

\* A text is a sequence of characters: 0 is "\n", 1 and 2 are two letters.
\* The chunk arrays a client may post (chunks[i].text):
ChunkLists ==
    { << <<1>> >>,               \* "x"
      << <<2>> >>,               \* "y"
      << <<2, 0>>, <<1>> >>,     \* "y\n", "x": content "y\n\nx"
      << <<2, 1, 1, 1>> >> }     \* "yxxx"

\* The request bodies explored: agent1 posts every chunk array as a.txt and
\* the two-chunk one as b.txt as well, agent2 posts the two-chunk one as a.txt.
Requests ==
    {[agentId |-> "agent1", filename |-> "a.txt", chunks |-> c] : c \in ChunkLists}
    \cup {[agentId |-> "agent1", filename |-> "b.txt", chunks |-> << <<2, 0>>, <<1>> >>],
          [agentId |-> "agent2", filename |-> "a.txt", chunks |-> << <<2, 0>>, <<1>> >>]}

\* users.token_balance values the requesting user may start with, in PuUnit
InitialBalances == {1000, -500000}

\* Length of an ordinary text file (16 kB): its estimated 5200 tokens cost more
\* than 5 PU.
LargeLen == 16000

\* A first upload of such a file, in one chunk.
LargeRequests ==
    {[agentId |-> "agent2", filename |-> "b.txt", chunks |-> << [i \in 1..LargeLen |-> 1] >>]}

\* Balances of a user who is not overdrawn: 0 PU and 0.01 PU.
NonNegativeBalances == {0, 1000}

\* PU amounts are JavaScript numbers; the model keeps them as integers in
\* units of 1/PuUnit PU.
PuUnit == 100000

\* Length of the hex form of a SHA-256 digest.
HashLen == 64

RECURSIVE JoinTexts(_, _)
\* Array.prototype.join over an array of texts.
JoinTexts(texts, sep) ==
    IF Len(texts) = 0 THEN <<>>
    ELSE IF Len(texts) = 1 THEN texts[1]
    ELSE texts[1] \o sep \o JoinTexts(Tail(texts), sep)

RECURSIVE ContentCode(_)
\* A numbering of the texts (digits 1..3, base 4), injective on short texts.
ContentCode(content) ==
    IF Len(content) = 0 THEN 0
    ELSE (content[1] + 1) + 4 * ContentCode(Tail(content))

\* crypto.createHash('sha256').update(content).digest('hex').  The digest is
\* not computed: each content gets a fixed HashLen-digit string, distinct
\* contents of ChunkLists get distinct strings, and the digit-wise distances
\* between them fall on both sides of every tier threshold.
Sha256Hex(content) ==
    LET code == (IF Len(content) >= LargeLen THEN Len(content)
                 ELSE ContentCode(content)) % (HashLen + 1)
    IN  [i \in 1..HashLen |-> IF i <= code THEN 1 ELSE 0]

\* documents.routes.ts hashes chunks.map(c => c.text).join('\n').
RouteContentHash_noSeparator(chunks) == Sha256Hex(JoinTexts(chunks, <<>>))

RouteContentHash(chunks) == Sha256Hex(JoinTexts(chunks, <<0>>))

CeilDiv(a, b) == (a + b - 1) \div b

\* Math.ceil((content.length / 4) * 1.3)
EstimatedTokens(content) == CeilDiv(Len(content) * 13, 40)

\* tokens / 1000 PU, in units of 1/PuUnit PU
TokensTopu(tokens) == tokens * (PuUnit \div 1000)

\* calculateStringHashSimilarity, with Math.round as floor(x + 1/2)
CalculateStringHashSimilarity(hash1, hash2) ==
    IF hash1 = hash2 THEN 100
    ELSE LET minLen == Min(Len(hash1), Len(hash2))
             lenDiff == IF Len(hash1) > Len(hash2) THEN Len(hash1) - Len(hash2)
                        ELSE Len(hash2) - Len(hash1)
             differences == Cardinality({i \in 1..minLen : hash1[i] # hash2[i]}) + lenDiff
             num == 100 * minLen - 100 * differences      \* similarity * minLen
         IN  IF num <= 0 THEN 0 ELSE (2 * num + minLen) \div (2 * minLen)

\* Step 4 of calculateFileCharge with the first threshold taken inclusively.
ChargePercent_inclusive(diffPercent) ==
    IF diffPercent <= 30 THEN 20 ELSE IF diffPercent < 60 THEN 70 ELSE 100

\* Step 4 of calculateFileCharge: the charging rules.
ChargePercent(diffPercent) ==
    IF diffPercent < 30 THEN 20 ELSE IF diffPercent < 60 THEN 70 ELSE 100

ChargeReason(chargePercent) ==
    IF chargePercent = 20 THEN "MINOR_UPDATE"
    ELSE IF chargePercent = 70 THEN "MAJOR_UPDATE" ELSE "FULL_REPLACEMENT"

\* The duplicate lookup without the agent_id condition.
CacheByHash_anyAgent(cache, agentId, contentHash) ==
    SelectSeq(cache, LAMBDA r : r.content_hash = contentHash)

\* SELECT ... FROM file_processing_cache WHERE agent_id = $1 AND content_hash = $2
CacheByHash(cache, agentId, contentHash) ==
    SelectSeq(cache, LAMBDA r : r.agent_id = agentId /\ r.content_hash = contentHash)

\* SELECT content_hash ... WHERE agent_id = $1 AND filename = $2
\* ORDER BY created_at DESC LIMIT 1
PreviousVersions(cache, agentId, filename) ==
    SelectDescLimit(SelectSeq(cache, LAMBDA r : r.agent_id = agentId /\ r.filename = filename), 1)

NoCharge == [puCost |-> 0, reason |-> "none", chargePercentage |-> 0]

\* calculateFileCharge when both reads succeed.
CalculateFileCharge(cache, agentId, filename, contentChunks) ==
    LET content     == JoinTexts(contentChunks, <<0>>)
        contentHash == Sha256Hex(content)
        cached      == CacheByHash(cache, agentId, contentHash)
        previousVersions == PreviousVersions(cache, agentId, filename)
        estimatedTokens  == EstimatedTokens(content)
    IN  IF Len(cached) > 0
        THEN [puCost |-> 0, reason |-> "DUPLICATE", chargePercentage |-> 0]
        ELSE IF Len(previousVersions) = 0
        THEN [puCost |-> TokensTopu(estimatedTokens), reason |-> "NEW_FILE",
              chargePercentage |-> 100]
        ELSE LET previousHash  == previousVersions[1].content_hash
                 similarity    == CalculateStringHashSimilarity(previousHash, contentHash)
                 diffPercent   == 100 - similarity
                 chargePercent == ChargePercent(diffPercent)
                 basePuCost    == TokensTopu(estimatedTokens)
             IN  [puCost |-> (basePuCost * chargePercent) \div 100,
                  reason |-> ChargeReason(chargePercent),
                  chargePercentage |-> chargePercent]

\* checkPuBalance for an existing user: balance >= requiredPu || balance > -5.0
HasBalance(balance, requiredPu) == balance >= requiredPu \/ balance > 0 - 5 * PuUnit

NoReq == [agentId |-> "none", filename |-> "none", chunks |-> <<>>,
          chargeInfo |-> NoCharge, kbId |-> 0, deducted |-> "pending",
          cacheReadFailed |-> FALSE]

Stores == [cache  |-> file_processing_cache, kb |-> knowledge_bases,
           chunks |-> document_chunks, chroma |-> chroma,
           balance |-> token_balance, tx |-> token_transactions]

\* No request has been received yet.
VecIdle ==
    /\ file_processing_cache = <<>>
    /\ knowledge_bases = {}
    /\ document_chunks = {}
    /\ chroma = {}
    /\ token_transactions = <<>>
    /\ vecPc = "idle"
    /\ vecReq = NoReq
    /\ vecResponse = "none"
    /\ vecBefore = [cache |-> <<>>, kb |-> {}, chunks |-> {}, chroma |-> {},
                    balance |-> token_balance, tx |-> <<>>]
    /\ vecCount = 0
    /\ vecFaults = 0

VecInit == token_balance \in InitialBalances /\ VecIdle

\* res.status(...).json(...): the request is over.
VecRespond(status) ==
    /\ vecPc' = "idle"
    /\ vecResponse' = status

\* POST /vectorize, lines 136-168: the body is parsed and calculateFileCharge
\* returns.
Vectorize ==
    /\ vecPc = "idle"
    /\ vecCount < MaxVectorize
    /\ \E r \in Requests :
         vecReq' = [agentId |-> r.agentId, filename |-> r.filename, chunks |-> r.chunks,
                    chargeInfo |-> CalculateFileCharge(file_processing_cache, r.agentId,
                                                       r.filename, r.chunks),
                    kbId |-> vecCount + 1, deducted |-> "pending",
                    cacheReadFailed |-> FALSE]
    /\ vecCount' = vecCount + 1
    /\ vecBefore' = Stores
    /\ vecPc' = "balance"
    /\ vecResponse' = "none"
    /\ UNCHANGED <<file_processing_cache, knowledge_bases, document_chunks, chroma,
                   token_balance, token_transactions, vecFaults>>
    /\ UNCHANGED nonVecVars

\* POST /vectorize, lines 136-168, for the upload of a large file.
VectorizeLarge ==
    /\ vecPc = "idle"
    /\ vecCount < MaxVectorize
    /\ \E r \in LargeRequests :
         vecReq' = [agentId |-> r.agentId, filename |-> r.filename, chunks |-> r.chunks,
                    chargeInfo |-> CalculateFileCharge(file_processing_cache, r.agentId,
                                                       r.filename, r.chunks),
                    kbId |-> vecCount + 1, deducted |-> "pending",
                    cacheReadFailed |-> FALSE]
    /\ vecCount' = vecCount + 1
    /\ vecBefore' = Stores
    /\ vecPc' = "balance"
    /\ vecResponse' = "none"
    /\ UNCHANGED <<file_processing_cache, knowledge_bases, document_chunks, chroma,
                   token_balance, token_transactions, vecFaults>>
    /\ UNCHANGED nonVecVars

\* A failing version-cache read whose error is swallowed: the charge computed
\* is zero and the request goes on.
ChargeReadThrows_swallowed ==
    /\ vecPc' = "balance"
    /\ vecResponse' = "none"

\* A version-cache read of calculateFileCharge throws (part_006 lines 23, 37):
\* nothing catches it before the route's catch block, lines 298-304.
ChargeReadThrows == VecRespond(500)

\* POST /vectorize when one of the two reads of calculateFileCharge fails.
VectorizeChargeFails ==
    /\ vecPc = "idle"
    /\ vecCount < MaxVectorize
    /\ vecFaults < MaxFaults
    /\ vecFaults' = vecFaults + 1
    /\ \E r \in Requests :
         vecReq' = [agentId |-> r.agentId, filename |-> r.filename, chunks |-> r.chunks,
                    chargeInfo |-> NoCharge,
                    kbId |-> vecCount + 1, deducted |-> "pending",
                    cacheReadFailed |-> TRUE]
    /\ vecCount' = vecCount + 1
    /\ vecBefore' = Stores
    /\ ChargeReadThrows
    /\ UNCHANGED <<file_processing_cache, knowledge_bases, document_chunks, chroma,
                   token_balance, token_transactions>>
    /\ UNCHANGED nonVecVars

\* checkPuBalance and the 402 answer, lines 170-181.
VecCheckBalance ==
    /\ vecPc = "balance"
    /\ IF HasBalance(token_balance, vecReq.chargeInfo.puCost)
       THEN /\ vecPc' = "existing"
            /\ UNCHANGED vecResponse
       ELSE VecRespond(402)
    /\ UNCHANGED <<file_processing_cache, knowledge_bases, document_chunks, chroma,
                   token_balance, token_transactions, vecReq, vecBefore, vecCount, vecFaults>>
    /\ UNCHANGED nonVecVars

ExistingDocs(kb, agentId, filename) ==
    {d \in kb : d.agentId = agentId /\ d.filename = filename}

\* The lookup of an existing document, lines 188-194.
VecFindExisting ==
    /\ vecPc = "existing"
    /\ vecPc' = IF ExistingDocs(knowledge_bases, vecReq.agentId, vecReq.filename) # {}
                THEN "deleteChroma" ELSE "insertKb"
    /\ UNCHANGED <<file_processing_cache, knowledge_bases, document_chunks, chroma,
                   token_balance, token_transactions, vecReq, vecResponse,
                   vecBefore, vecCount, vecFaults>>
    /\ UNCHANGED nonVecVars

\* chromaService.deleteDocuments(agentId, { source: filename }), line 207.
VecDeleteChroma ==
    /\ vecPc = "deleteChroma"
    /\ chroma' = {v \in chroma :
                    ~(v.agentId = vecReq.agentId /\ v.source = vecReq.filename)}
    /\ vecPc' = "deleteDb"
    /\ UNCHANGED <<file_processing_cache, knowledge_bases, document_chunks,
                   token_balance, token_transactions, vecReq, vecResponse,
                   vecBefore, vecCount, vecFaults>>
    /\ UNCHANGED nonVecVars

\* DELETE FROM knowledge_bases (cascades to the chunks), lines 210-213.
VecDeleteDb ==
    /\ vecPc = "deleteDb"
    /\ LET gone == ExistingDocs(knowledge_bases, vecReq.agentId, vecReq.filename)
       IN  /\ knowledge_bases' = knowledge_bases \ gone
           /\ document_chunks' =
                {c \in document_chunks : c.knowledgeBaseId \notin {d.id : d \in gone}}
    /\ vecPc' = "insertKb"
    /\ UNCHANGED <<file_processing_cache, chroma, token_balance, token_transactions,
                   vecReq, vecResponse, vecBefore, vecCount, vecFaults>>
    /\ UNCHANGED nonVecVars

\* INSERT INTO knowledge_bases, lines 217-223.
VecInsertKb ==
    /\ vecPc = "insertKb"
    /\ knowledge_bases' = knowledge_bases \cup
           {[id |-> vecReq.kbId, agentId |-> vecReq.agentId, filename |-> vecReq.filename]}
    /\ vecPc' = "addChroma"
    /\ UNCHANGED <<file_processing_cache, document_chunks, chroma, token_balance,
                   token_transactions, vecReq, vecResponse, vecBefore, vecCount, vecFaults>>
    /\ UNCHANGED nonVecVars

\* chromaService.addDocuments, lines 226-240.
VecAddChroma ==
    /\ vecPc = "addChroma"
    /\ chroma' = chroma \cup
           {[agentId |-> vecReq.agentId, source |-> vecReq.filename,
             knowledgeBaseId |-> vecReq.kbId, chunkIndex |-> i - 1,
             content |-> vecReq.chunks[i]] : i \in 1..Len(vecReq.chunks)}
    /\ vecPc' = "insertChunks"
    /\ UNCHANGED <<file_processing_cache, knowledge_bases, document_chunks,
                   token_balance, token_transactions, vecReq, vecResponse,
                   vecBefore, vecCount, vecFaults>>
    /\ UNCHANGED nonVecVars

ChunkRows(req, indexes) ==
    {[knowledgeBaseId |-> req.kbId, chunk_index |-> i - 1, content |-> req.chunks[i]]
        : i \in indexes}

\* The INSERTs into document_chunks, lines 246-257, all succeeding.
VecInsertChunks ==
    /\ vecPc = "insertChunks"
    /\ document_chunks' = document_chunks \cup ChunkRows(vecReq, 1..Len(vecReq.chunks))
    /\ vecPc' = "deduct"
    /\ UNCHANGED <<file_processing_cache, knowledge_bases, chroma, token_balance,
                   token_transactions, vecReq, vecResponse, vecBefore, vecCount, vecFaults>>
    /\ UNCHANGED nonVecVars

\* One of the parallel INSERTs rejects: Promise.all rejects, the others may
\* or may not have been written; the route answers 500.
VecInsertChunksFails ==
    /\ vecPc = "insertChunks"
    /\ Len(vecReq.chunks) > 0
    /\ \E failed \in 1..Len(vecReq.chunks), written \in SUBSET (1..Len(vecReq.chunks)) :
         /\ failed \notin written
         /\ document_chunks' = document_chunks \cup ChunkRows(vecReq, written)
    /\ vecFaults < MaxFaults
    /\ vecFaults' = vecFaults + 1
    /\ VecRespond(500)
    /\ UNCHANGED <<file_processing_cache, knowledge_bases, chroma, token_balance,
                   token_transactions, vecReq, vecBefore, vecCount>>
    /\ UNCHANGED nonVecVars

\* An awaited call of the route throws before it changes anything; the
\* route's catch block answers 500, lines 298-304.
VecStepFails ==
    /\ vecPc \in {"balance", "existing", "deleteChroma", "deleteDb", "insertKb",
                  "addChroma", "saveCache"}
    /\ vecFaults < MaxFaults
    /\ vecFaults' = vecFaults + 1
    /\ VecRespond(500)
    /\ UNCHANGED <<file_processing_cache, knowledge_bases, document_chunks, chroma,
                   token_balance, token_transactions, vecReq, vecBefore, vecCount>>
    /\ UNCHANGED nonVecVars

\* deductPuBalance, part_006 lines 132-189, called at lines 259-270 of the
\* route.  The UPDATE or the INSERT may throw; the function then returns
\* false, and the route only logs it.
VecDeduct ==
    /\ vecPc = "deduct"
    /\ \E outcome \in {"ok", "updateThrows", "insertThrows"} :
         LET puAmount == vecReq.chargeInfo.puCost
             balanceBefore == token_balance
             balanceAfter  == balanceBefore - puAmount
         IN  /\ token_balance' = IF outcome = "updateThrows" THEN token_balance
                                 ELSE token_balance - puAmount
             /\ token_transactions' =
                  IF outcome = "ok"
                  THEN Append(token_transactions,
                              [type |-> "DEDUCTION", amount |-> 0 - puAmount,
                               balance_before |-> balanceBefore,
                               balance_after |-> balanceAfter,
                               filename |-> vecReq.filename])
                  ELSE token_transactions
             /\ vecReq' = [vecReq EXCEPT !.deducted = IF outcome = "ok" THEN "yes" ELSE "no"]
             /\ IF outcome = "ok" THEN UNCHANGED vecFaults
                ELSE vecFaults < MaxFaults /\ vecFaults' = vecFaults + 1
    /\ vecPc' = "saveCache"
    /\ UNCHANGED <<file_processing_cache, knowledge_bases, document_chunks, chroma,
                   vecResponse, vecBefore, vecCount>>
    /\ UNCHANGED nonVecVars

\* saveFileProcessingCache, part_006 lines 194-229.  texts is not a column: it
\* records the chunk texts of the request that wrote the row.
SaveFileProcessingCache(cache, agentId, filename, contentHash, chunkCount, puCharged, chargePercentage, texts) ==
    LET previousVersion == PreviousVersions(cache, agentId, filename)
    IN  Append(cache,
               [agent_id |-> agentId, filename |-> filename,
                content_hash |-> contentHash, chunk_count |-> chunkCount,
                pu_charged |-> puCharged, charge_percentage |-> chargePercentage,
                previous_version |-> IF Len(previousVersion) > 0
                                     THEN previousVersion[1].content_hash
                                     ELSE <<>>,
                texts |-> texts])

\* Lines 272-297: the version record is saved and the route answers 200.
VecSaveCache ==
    /\ vecPc = "saveCache"
    /\ file_processing_cache' =
         SaveFileProcessingCache(file_processing_cache, vecReq.agentId, vecReq.filename,
                                 RouteContentHash(vecReq.chunks), Len(vecReq.chunks),
                                 vecReq.chargeInfo.puCost,
                                 vecReq.chargeInfo.chargePercentage, vecReq.chunks)
    /\ VecRespond(200)
    /\ UNCHANGED <<knowledge_bases, document_chunks, chroma, token_balance,
                   token_transactions, vecReq, vecBefore, vecCount, vecFaults>>
    /\ UNCHANGED nonVecVars

NextVec ==
    \/ Vectorize
    \/ VectorizeChargeFails
    \/ VecCheckBalance
    \/ VecFindExisting
    \/ VecDeleteChroma
    \/ VecDeleteDb
    \/ VecInsertKb
    \/ VecAddChroma
    \/ VecInsertChunks
    \/ VecInsertChunksFails
    \/ VecStepFails
    \/ VecDeduct
    \/ VecSaveCache

\* The route serving small and large uploads.
NextVecLarge ==
    \/ Vectorize
    \/ VectorizeLarge
    \/ VectorizeChargeFails
    \/ VecCheckBalance
    \/ VecFindExisting
    \/ VecDeleteChroma
    \/ VecDeleteDb
    \/ VecInsertKb
    \/ VecAddChroma
    \/ VecInsertChunks
    \/ VecInsertChunksFails
    \/ VecStepFails
    \/ VecDeduct
    \/ VecSaveCache

\* ---------------------------------------------------------------------------
\* Hybrid retrieval fusion: HybridSearchService.search
\* ---------------------------------------------------------------------------
\* Chunk texts the two backends may return; two stored chunks may carry the
\* same text, so a ranking may repeat a content.
DocContents == {"d1", "d2", "d3"}

RECURSIVE SeqsUpTo(_, _)
\* All sequences over S of length at most n.
SeqsUpTo(S, n) ==
    IF n = 0 THEN {<<>>}
    ELSE LET shorter == SeqsUpTo(S, n - 1)
         IN  shorter \cup {Append(s, x) : s \in {t \in shorter : Len(t) = n - 1}, x \in S}

RECURSIVE ScoreDenUpTo(_)
ScoreDenUpTo(n) == IF n = 0 THEN 1 ELSE (60 + n) * ScoreDenUpTo(n - 1)

\* Scores are JavaScript numbers; the model keeps them as exact integers in
\* units of 1/ScoreDen, ScoreDen being a common multiple of 61 .. 60 + MaxLimit.
ScoreDen == ScoreDenUpTo(MaxLimit)

\* const rrfScore = 1 / (60 + rank + 1)
RrfScore(rank) == ScoreDen \div (60 + rank + 1)

\* Index of the entry of resultMap with this content, 0 when there is none.
MapIndex(resultMap, content) ==
    IF \E i \in 1..Len(resultMap) : resultMap[i].content = content
    THEN CHOOSE i \in 1..Len(resultMap) : resultMap[i].content = content
    ELSE 0

\* One iteration of the forEach loops, lines 37-53 and 56-74: resultMap is the
\* Map in insertion order.
AddResult(resultMap, content, rank, source) ==
    LET rrfScore == RrfScore(rank)
        existing == MapIndex(resultMap, content)
    IN  IF existing # 0
        THEN [resultMap EXCEPT ![existing] =
                 [content |-> content, score |-> @.score + rrfScore, source |-> "both"]]
        ELSE Append(resultMap, [content |-> content, score |-> rrfScore, source |-> source])

RECURSIVE AddResults(_, _, _, _)
\* results.forEach((result, rank) => ...), starting at the 0-based rank `rank`.
AddResults(resultMap, results, rank, source) ==
    IF Len(results) = 0 THEN resultMap
    ELSE AddResults(AddResult(resultMap, results[1], rank, source),
                    Tail(results), rank + 1, source)

\* The resultMap after both loops.
Fuse(vectorResults, ftsResults) ==
    AddResults(AddResults(<<>>, vectorResults, 0, "vector"), ftsResults, 0, "fts")

\* The comparator with the operands swapped: ascending scores.
ScoreBefore_ascending(a, b) == a.score < b.score

\* (a, b) => b.score - a.score is negative: a sorts before b.
ScoreBefore(a, b) == a.score > b.score

RECURSIVE InsertSorted(_, _)
\* Insert e behind every entry that does not sort after it (stable).
InsertSorted(sorted, e) ==
    IF Len(sorted) = 0 THEN <<e>>
    ELSE IF ScoreBefore(e, sorted[1]) THEN <<e>> \o sorted
    ELSE <<sorted[1]>> \o InsertSorted(Tail(sorted), e)

RECURSIVE SortByScore(_)
\* Array.prototype.sort with the comparator of line 78 (a stable sort).
SortByScore(entries) ==
    IF Len(entries) = 0 THEN <<>>
    ELSE InsertSorted(SortByScore(SubSeq(entries, 1, Len(entries) - 1)),
                      entries[Len(entries)])

\* Lines 76-79: sort and slice(0, limit).
TopResults(resultMap, limit) == JsSliceTo(SortByScore(resultMap), limit)

Pending == [settled |-> FALSE, failed |-> FALSE, results |-> <<>>]

SearchInit ==
    /\ srchPc = "idle"
    /\ srchLimit = 0
    /\ srchVector = Pending
    /\ srchFts = Pending
    /\ srchMerged = <<>>
    /\ srchOut = <<>>

\* search(agentId, query, limit), lines 22-31: both sub-searches are issued.
Search ==
    /\ srchPc \in {"idle", "done"}
    /\ \E limit \in 1..MaxLimit : srchLimit' = limit
    /\ srchPc' = "pending"
    /\ srchVector' = Pending
    /\ srchFts' = Pending
    /\ srchMerged' = <<>>
    /\ srchOut' = <<>>
    /\ UNCHANGED nonSrchVars

\* chromaService.searchDocuments resolves with at most nResults documents.
VectorResolves ==
    /\ srchPc = "pending"
    /\ ~srchVector.settled
    /\ \E r \in SeqsUpTo(DocContents, srchLimit) :
         srchVector' = [settled |-> TRUE, failed |-> FALSE, results |-> r]
    /\ UNCHANGED <<srchPc, srchLimit, srchFts, srchMerged, srchOut>>
    /\ UNCHANGED nonSrchVars

\* chromaService.searchDocuments rejects: .catch(() => []), line 29.
VectorRejects ==
    /\ srchPc = "pending"
    /\ ~srchVector.settled
    /\ srchVector' = [settled |-> TRUE, failed |-> TRUE, results |-> <<>>]
    /\ UNCHANGED <<srchPc, srchLimit, srchFts, srchMerged, srchOut>>
    /\ UNCHANGED nonSrchVars

\* ftsService.searchDocuments resolves with at most LIMIT rows.
FtsResolves ==
    /\ srchPc = "pending"
    /\ ~srchFts.settled
    /\ \E r \in SeqsUpTo(DocContents, srchLimit) :
         srchFts' = [settled |-> TRUE, failed |-> FALSE, results |-> r]
    /\ UNCHANGED <<srchPc, srchLimit, srchVector, srchMerged, srchOut>>
    /\ UNCHANGED nonSrchVars

\* ftsService.searchDocuments rejects: .catch(() => []), line 30.
FtsRejects ==
    /\ srchPc = "pending"
    /\ ~srchFts.settled
    /\ srchFts' = [settled |-> TRUE, failed |-> TRUE, results |-> <<>>]
    /\ UNCHANGED <<srchPc, srchLimit, srchVector, srchMerged, srchOut>>
    /\ UNCHANGED nonSrchVars

\* Promise.all has resolved: lines 33-79, fusion, sort and truncation.
SearchReturns ==
    /\ srchPc = "pending"
    /\ srchVector.settled
    /\ srchFts.settled
    /\ srchMerged' = Fuse(srchVector.results, srchFts.results)
    /\ srchOut' = TopResults(srchMerged', srchLimit)
    /\ srchPc' = "done"
    /\ UNCHANGED <<srchLimit, srchVector, srchFts>>
    /\ UNCHANGED nonSrchVars

NextSearch ==
    \/ Search
    \/ VectorResolves
    \/ VectorRejects
    \/ FtsResolves
    \/ FtsRejects
    \/ SearchReturns

\* ---------------------------------------------------------------------------
\* HybridSearchService.searchWithFallback
\* ---------------------------------------------------------------------------
NoSwfCall == [limit |-> 0, mode |-> "none", vectorFailed |-> FALSE, returned |-> "none"]

SwfInit ==
    /\ swfPc = "idle"
    /\ swfCall = NoSwfCall
    /\ swfOut = <<>>

\* What the information_schema query of FtsService.isAvailable may do: return
\* the search_vector column, return no row, or throw.
ProbeOutcomes == {"column", "noColumn", "throws"}

\* FtsService.isAvailable, fts.service.ts lines 56-66.
IsAvailable(outcome) ==
    IF outcome = "throws" THEN FALSE
    ELSE (IF outcome = "column" THEN 1 ELSE 0) > 0

\* searchWithFallback(agentId, query, limit), lines 85-90: isAvailable is awaited.
SearchWithFallback ==
    /\ swfPc \in {"idle", "done"}
    /\ srchPc \in {"idle", "done"}
    /\ \E limit \in 1..MaxLimit : swfCall' = [NoSwfCall EXCEPT !.limit = limit]
    /\ swfPc' = "probe"
    /\ swfOut' = <<>>
    /\ UNCHANGED srchVars
    /\ UNCHANGED nonSwfVars

\* Lines 90-101: isAvailable has answered; this.search is called when the
\* lexical index is available, chromaService.searchDocuments alone otherwise.
SwfProbe ==
    /\ swfPc = "probe"
    /\ \E outcome \in ProbeOutcomes :
         IF IsAvailable(outcome)
         THEN /\ swfPc' = "hybrid"
              /\ swfCall' = [swfCall EXCEPT !.mode = "hybrid"]
              /\ srchPc' = "pending"
              /\ srchLimit' = swfCall.limit
              /\ srchVector' = Pending
              /\ srchFts' = Pending
              /\ srchMerged' = <<>>
              /\ srchOut' = <<>>
         ELSE /\ swfPc' = "vectorOnly"
              /\ swfCall' = [swfCall EXCEPT !.mode = "fallback"]
              /\ UNCHANGED srchVars
    /\ UNCHANGED swfOut
    /\ UNCHANGED nonSwfVars

\* Lines 93-98: search has returned; its entries are mapped.
SwfSearchReturns ==
    /\ swfPc = "hybrid"
    /\ srchPc = "done"
    /\ swfOut' = [i \in 1..Len(srchOut) |->
                    [content |-> srchOut[i].content, source |-> srchOut[i].source]]
    /\ swfCall' = [swfCall EXCEPT !.returned = "returned"]
    /\ swfPc' = "done"
    /\ UNCHANGED srchVars
    /\ UNCHANGED nonSwfVars

\* Lines 101-106: the vector-only search resolves; its results are mapped.
SwfVectorResolves ==
    /\ swfPc = "vectorOnly"
    /\ \E r \in SeqsUpTo(DocContents, swfCall.limit) :
         swfOut' = [i \in 1..Len(r) |-> [content |-> r[i], source |-> "vector"]]
    /\ swfCall' = [swfCall EXCEPT !.returned = "returned"]
    /\ swfPc' = "done"
    /\ UNCHANGED srchVars
    /\ UNCHANGED nonSwfVars

\* Line 101: the awaited chromaService.searchDocuments rejects; nothing catches
\* it inside searchWithFallback.
SwfVectorRejects ==
    /\ swfPc = "vectorOnly"
    /\ swfCall' = [swfCall EXCEPT !.vectorFailed = TRUE, !.returned = "raised"]
    /\ swfPc' = "done"
    /\ UNCHANGED swfOut
    /\ UNCHANGED srchVars
    /\ UNCHANGED nonSwfVars

NextFallback ==
    \/ SearchWithFallback
    \/ SwfProbe
    \/ VectorResolves
    \/ VectorRejects
    \/ FtsResolves
    \/ FtsRejects
    \/ SearchReturns
    \/ SwfSearchReturns
    \/ SwfVectorResolves
    \/ SwfVectorRejects

\* ---------------------------------------------------------------------------
\* Sentence-aware chunking: tokenizeParagraphs, tokenizeSentences,
\* splitLongSentence, smartSplitText
\* ---------------------------------------------------------------------------
\* A text is a sequence of characters.  The texts explored are written with a
\* letter, the space, the full stop and the newline.
Alphabet == {"a", " ", ".", "\n"}

Texts == SeqsUpTo(Alphabet, MaxTextLen)

\* options.maxChunkSize: POST /parse forwards parseInt(chunkSize) || 2000, any
\* non-zero integer.
MaxChunkSizes == {-1} \cup 1..MaxChunkSize

\* options.minChunkSize: 1 lets every paragraph end close a chunk, 100 (the
\* default) is longer than every text explored.
MinChunkSizes == {1, 100}

\* options.overlapSentences
OverlapCounts == 0..MaxOverlap

\* \s, for the characters of Alphabet
IsSpace(c) == c \in {" ", "\n"}

RECURSIVE TrimStart(_)
TrimStart(str) ==
    IF Len(str) > 0 /\ IsSpace(str[1]) THEN TrimStart(Tail(str)) ELSE str

RECURSIVE TrimEnd(_)
TrimEnd(str) ==
    IF Len(str) > 0 /\ IsSpace(str[Len(str)])
    THEN TrimEnd(SubSeq(str, 1, Len(str) - 1))
    ELSE str

\* String.prototype.trim
Trim(str) == TrimEnd(TrimStart(str))

\* String.prototype.slice(start, end) for 0 <= start <= end
StrSlice(str, start, end) == SubSeq(str, Min(start, Len(str)) + 1, Min(end, Len(str)))

RECURSIVE Join(_, _)
\* Array.prototype.join
Join(strs, sep) ==
    IF Len(strs) = 0 THEN <<>>
    ELSE IF Len(strs) = 1 THEN strs[1]
    ELSE strs[1] \o sep \o Join(Tail(strs), sep)

\* 1-based position of the first occurrence of sep in str, 0 when there is none.
IndexOf(str, sep) ==
    LET hits == {i \in 1..(Len(str) - Len(sep) + 1) : SubSeq(str, i, i + Len(sep) - 1) = sep}
    IN  IF hits = {} THEN 0 ELSE CHOOSE i \in hits : \A j \in hits : i <= j

RECURSIVE JsSplit(_, _)
\* String.prototype.split(sep) with a non-empty separator string
JsSplit(str, sep) ==
    LET at == IndexOf(str, sep)
    IN  IF at = 0 THEN <<str>>
        ELSE <<SubSeq(str, 1, at - 1)>> \o JsSplit(SubSeq(str, at + Len(sep), Len(str)), sep)

RECURSIVE RunEnd(_, _)
\* Last position of the whitespace run that starts at position i.
RunEnd(text, i) ==
    IF i <= Len(text) /\ IsSpace(text[i]) THEN RunEnd(text, i + 1) ELSE i - 1

RECURSIVE SplitParagraphs(_, _, _)
\* text.split(/\n\s*\n+/): the pattern matches, inside a whitespace run that
\* holds at least two newlines, from its first to its last newline.  The
\* pieces are given here with the rest of the run dropped as well, which
\* tokenizeParagraphs trims away in any case.
SplitParagraphs(text, pos, cur) ==
    IF pos > Len(text) THEN <<cur>>
    ELSE IF IsSpace(text[pos])
    THEN LET e == RunEnd(text, pos)
         IN  IF Cardinality({k \in pos..e : text[k] = "\n"}) >= 2
             THEN <<cur>> \o SplitParagraphs(text, e + 1, <<>>)
             ELSE SplitParagraphs(text, e + 1, cur \o SubSeq(text, pos, e))
    ELSE SplitParagraphs(text, pos + 1, Append(cur, text[pos]))

\* tokenizeParagraphs, sentence-tokenizer.ts lines 133-140.
TokenizeParagraphs(text) ==
    LET paragraphs == SplitParagraphs(text, 1, <<>>)
        trimmed    == [i \in 1..Len(paragraphs) |-> Trim(paragraphs[i])]
    IN  SelectSeq(trimmed, LAMBDA p : Len(p) > 0)

\* SENTENCE_ENDER_CHARS, for the characters of Alphabet
SentenceEnderChars == {"."}

\* /[a-zA-Z...]/, for the characters of Alphabet
IsLetter(c) == c = "a"

\* ABBREVIATIONS_EN and ABBREVIATIONS_RU hold no word written with the letter
\* "a" alone.
IsAbbreviation(word) == FALSE

RECURSIVE WordStart(_, _)
\* Lines 44-48: first position of the run of letters that ends before pos.
WordStart(text, pos) ==
    IF pos - 1 >= 1 /\ IsLetter(text[pos - 1]) THEN WordStart(text, pos - 1) ELSE pos

RECURSIVE SkipSpaces(_, _)
\* Lines 67-70.
SkipSpaces(text, nextPos) ==
    IF nextPos <= Len(text) /\ IsSpace(text[nextPos])
    THEN SkipSpaces(text, nextPos + 1)
    ELSE nextPos

\* isSentenceBoundary, lines 36-89 (positions are 1-based here).  The tests
\* for digits, upper-case letters and quotes cannot fire on Alphabet.
IsSentenceBoundary(text, pos) ==
    IF text[pos] \notin SentenceEnderChars THEN FALSE
    ELSE LET wordBefore == SubSeq(text, WordStart(text, pos), pos - 1)
             nextPos    == SkipSpaces(text, pos + 1)
         IN  IF Len(wordBefore) > 0 /\ IsAbbreviation(wordBefore) THEN FALSE
             ELSE IF nextPos > Len(text) THEN TRUE
             ELSE IF \E k \in (pos + 1)..(nextPos - 1) : text[k] = "\n" THEN TRUE
             ELSE pos + 1 <= Len(text) /\ text[pos + 1] = " "

RECURSIVE EnderRunEnd(_, _)
\* Lines 107-109: skip consecutive punctuation.
EnderRunEnd(text, i) ==
    IF i + 1 <= Len(text) /\ text[i + 1] \in SentenceEnderChars
    THEN EnderRunEnd(text, i + 1)
    ELSE i

RECURSIVE SentencesFrom(_, _, _)
\* The loop of tokenizeSentences, lines 102-126, from position i on.
SentencesFrom(text, i, currentStart) ==
    IF i > Len(text)
    THEN LET remaining == Trim(SubSeq(text, currentStart, Len(text)))
         IN  IF Len(remaining) > 0 THEN <<remaining>> ELSE <<>>
    ELSE IF text[i] \in SentenceEnderChars
    THEN LET j == EnderRunEnd(text, i)
         IN  IF IsSentenceBoundary(text, j)
             THEN LET sentence == Trim(SubSeq(text, currentStart, j))
                  IN  (IF Len(sentence) > 0 THEN <<sentence>> ELSE <<>>)
                          \o SentencesFrom(text, j + 1, j + 1)
             ELSE SentencesFrom(text, j + 1, currentStart)
    ELSE SentencesFrom(text, i + 1, currentStart)

\* tokenizeSentences, sentence-tokenizer.ts lines 94-128.
TokenizeSentences(text) ==
    IF Len(text) = 0 \/ Len(Trim(text)) = 0 THEN <<>> ELSE SentencesFrom(text, 1, 1)

\* const fallbackSeparators = ['; ', ', ', ' ']
FallbackSeparators == << <<";", " ">>, <<",", " ">>, <<" ">> >>

\* Outcome of a computation: its value, or no value because it never ends.
Returns(parts) == [ok |-> TRUE, parts |-> parts]
NeverReturns   == [ok |-> FALSE, parts |-> <<>>]

RECURSIVE SliceLoop(_, _, _)
\* for (let i = 0; i < sentence.length; i += maxSize), lines 71-75.  When
\* i += maxSize does not advance i the loop condition stays true for ever.
SliceLoop(sentence, maxSize, i) ==
    IF ~(i < Len(sentence)) THEN Returns(<<>>)
    ELSE IF i + maxSize <= i THEN NeverReturns
    ELSE LET rest == SliceLoop(sentence, maxSize, i + maxSize)
         IN  [ok |-> rest.ok,
              parts |-> <<StrSlice(sentence, i, i + maxSize)>> \o rest.parts]

RECURSIVE SplitLongSentence(_, _)
RECURSIVE PackParts(_, _, _, _, _)
\* for (const part of parts), lines 43-66.
PackParts(parts, sep, maxSize, result, current) ==
    IF Len(parts) = 0
    THEN Returns(IF Len(current) > 0 THEN Append(result, current) ELSE result)
    ELSE LET part      == parts[1]
             candidate == IF Len(current) > 0 THEN current \o sep \o part ELSE part
             flushed   == IF Len(current) > 0 THEN Append(result, current) ELSE result
         IN  IF Len(candidate) <= maxSize
             THEN PackParts(Tail(parts), sep, maxSize, result, candidate)
             ELSE IF Len(part) > maxSize
             THEN LET sub == SplitLongSentence(part, maxSize)
                  IN  IF sub.ok
                      THEN PackParts(Tail(parts), sep, maxSize, flushed \o sub.parts, <<>>)
                      ELSE NeverReturns
             ELSE PackParts(Tail(parts), sep, maxSize, flushed, part)

\* splitLongSentence, smart-splitter.ts lines 30-76.
SplitLongSentence(sentence, maxSize) ==
    IF Len(sentence) <= maxSize THEN Returns(<<sentence>>)
    ELSE LET usable == {k \in 1..Len(FallbackSeparators) :
                            Len(JsSplit(sentence, FallbackSeparators[k])) > 1}
         IN  IF usable # {}
             THEN LET sep == FallbackSeparators[CHOOSE k \in usable : \A j \in usable : k <= j]
                  IN  PackParts(JsSplit(sentence, sep), sep, maxSize, <<>>, <<>>)
             ELSE SliceLoop(sentence, maxSize, 0)

\* Lines 100-108: the sentences of paragraph i, the last one marked as a
\* paragraph break unless the paragraph is the last.
ParagraphSentences(paragraphs, i) ==
    LET sentences == TokenizeSentences(paragraphs[i])
    IN  [j \in 1..Len(sentences) |->
            [text |-> sentences[j],
             paragraphBreak |-> j = Len(sentences) /\ i < Len(paragraphs)]]

RECURSIVE AllSentencesFrom(_, _)
AllSentencesFrom(paragraphs, i) ==
    IF i > Len(paragraphs) THEN <<>>
    ELSE ParagraphSentences(paragraphs, i) \o AllSentencesFrom(paragraphs, i + 1)

\* Steps 1 and 2 of smartSplitText, lines 93-109.
AllSentences(text) == AllSentencesFrom(TokenizeParagraphs(text), 1)

\* The locals of step 3, lines 120-123.  carried is not a local: it counts the
\* overlap sentences currentSentences was seeded with.
NoChunks == [chunks |-> <<>>, currentSentences |-> <<>>, currentLength |-> 0,
             chunkIndex |-> 0, carried |-> 0, currentPositions |-> <<>>,
             pushed |-> 0, ok |-> TRUE]

\* A TextChunk.  sentences, positions, fresh and closedBy are not fields of
\* the chunk: they record the sentences joined into text, the place of each of
\* them in the source sentence sequence (currentPositions and pushed keep
\* that for the chunk being filled), those among them that no earlier chunk
\* held, and why the chunk was closed.
TextChunk(index, text, sentences, positions, fresh, closedBy) ==
    [index |-> index, text |-> text, sentenceCount |-> Len(sentences),
     sentences |-> sentences, positions |-> positions, fresh |-> fresh,
     closedBy |-> closedBy]

\* Variant of the overlap that keeps the first sentences of the closed chunk.
OverlapOf_first(currentSentences, overlapCount) == SubSeq(currentSentences, 1, overlapCount)

\* currentSentences.slice(-overlapCount), lines 146 and 169.
OverlapOf(currentSentences, overlapCount) == JsSliceFrom(currentSentences, 0 - overlapCount)

\* Lines 137-151 and 160-174: push the current chunk, then start the next one
\* with the overlap.
CloseChunk(st, overlapSentences, closedBy) ==
    LET cur   == st.currentSentences
        chunk == TextChunk(st.chunkIndex, Trim(Join(cur, <<" ">>)), cur,
                           st.currentPositions,
                           SubSeq(cur, st.carried + 1, Len(cur)), closedBy)
        next  == IF overlapSentences > 0 /\ Len(cur) > 0
                 THEN OverlapOf(cur, Min(overlapSentences, Len(cur)))
                 ELSE <<>>
        nextPositions == IF overlapSentences > 0 /\ Len(cur) > 0
                         THEN OverlapOf(st.currentPositions, Min(overlapSentences, Len(cur)))
                         ELSE <<>>
    IN  [st EXCEPT !.chunks = Append(@, chunk),
                   !.chunkIndex = @ + 1,
                   !.currentSentences = next,
                   !.currentLength = Len(Join(next, <<" ">>)),
                   !.carried = Len(next),
                   !.currentPositions = nextPositions]

\* One iteration of for (const part of sentenceParts), lines 131-156.
AddPart(st, part, maxChunkSize, overlapSentences) ==
    LET newLength == st.currentLength + Len(part)
                         + (IF Len(st.currentSentences) > 0 THEN 1 ELSE 0)
        opened    == IF Len(st.currentSentences) > 0 /\ newLength > maxChunkSize
                     THEN CloseChunk(st, overlapSentences, "overflow")
                     ELSE st
        pushed    == Append(opened.currentSentences, part)
    IN  [opened EXCEPT !.currentSentences = pushed,
                       !.currentLength = @ + Len(part) + (IF Len(pushed) > 1 THEN 1 ELSE 0),
                       !.currentPositions = Append(@, opened.pushed + 1),
                       !.pushed = @ + 1]

RECURSIVE AddParts(_, _, _, _)
AddParts(st, parts, maxChunkSize, overlapSentences) ==
    IF Len(parts) = 0 THEN st
    ELSE AddParts(AddPart(st, parts[1], maxChunkSize, overlapSentences),
                  Tail(parts), maxChunkSize, overlapSentences)

\* One iteration of the loop over allSentences, lines 125-176.
AddSentence(st, sentence, opts) ==
    LET sentenceParts == SplitLongSentence(sentence.text, opts.maxChunkSize)
    IN  IF ~sentenceParts.ok THEN [st EXCEPT !.ok = FALSE]
        ELSE LET packed == AddParts(st, sentenceParts.parts, opts.maxChunkSize,
                                    opts.overlapSentences)
             IN  IF sentence.paragraphBreak /\ packed.currentLength >= opts.minChunkSize
                 THEN CloseChunk(packed, opts.overlapSentences, "paragraph")
                 ELSE packed

RECURSIVE GroupSentences(_, _, _)
GroupSentences(st, allSentences, opts) ==
    IF Len(allSentences) = 0 \/ ~st.ok THEN st
    ELSE GroupSentences(AddSentence(st, allSentences[1], opts), Tail(allSentences), opts)

\* Lines 178-210: the last chunk, merged into the previous one when it is
\* short and the merged text stays within maxChunkSize * 1.2.
LastChunk(st, opts) ==
    LET cur      == st.currentSentences
        lastText == Trim(Join(cur, <<" ">>))
        fresh    == SubSeq(cur, st.carried + 1, Len(cur))
        own      == TextChunk(st.chunkIndex, lastText, cur, st.currentPositions, fresh, "end")
    IN  IF Len(cur) = 0 THEN st.chunks
        ELSE IF Len(lastText) < opts.minChunkSize /\ Len(st.chunks) > 0
        THEN LET prevChunk == st.chunks[Len(st.chunks)]
                 combined  == prevChunk.text \o <<" ">> \o lastText
             IN  IF 5 * Len(combined) <= 6 * opts.maxChunkSize
                 THEN [st.chunks EXCEPT ![Len(st.chunks)] =
                          TextChunk(prevChunk.index, combined, prevChunk.sentences \o cur,
                                    prevChunk.positions \o st.currentPositions,
                                    prevChunk.fresh \o fresh, "merge")]
                 ELSE Append(st.chunks, own)
        ELSE Append(st.chunks, own)

\* smartSplitText, smart-splitter.ts lines 82-211.
SmartSplitText(text, opts) ==
    IF Len(text) = 0 \/ Len(Trim(text)) = 0 THEN [ok |-> TRUE, chunks |-> <<>>]
    ELSE LET allSentences == AllSentences(text)
         IN  IF Len(allSentences) = 0
             THEN [ok |-> TRUE,
                   chunks |-> <<TextChunk(0, Trim(text), <<Trim(text)>>, <<1>>,
                                          <<Trim(text)>>, "end")>>]
             ELSE LET st == GroupSentences(NoChunks, allSentences, opts)
                  IN  IF st.ok THEN [ok |-> TRUE, chunks |-> LastChunk(st, opts)]
                      ELSE [ok |-> FALSE, chunks |-> <<>>]

NoInput == [text |-> <<>>, maxChunkSize |-> 0, overlapSentences |-> 0, minChunkSize |-> 0]

ChunkInit ==
    /\ chkPc = "idle"
    /\ chkIn = NoInput
    /\ chkOut = <<>>

\* smartSplitText(text, options) is called: it returns its chunks, or it
\* stays in a loop that never ends.
SmartSplit ==
    /\ chkPc = "idle"
    /\ \E text \in Texts, maxChunkSize \in MaxChunkSizes,
          overlapSentences \in OverlapCounts, minChunkSize \in MinChunkSizes :
         LET opts == [text |-> text, maxChunkSize |-> maxChunkSize,
                      overlapSentences |-> overlapSentences,
                      minChunkSize |-> minChunkSize]
             r    == SmartSplitText(text, opts)
         IN  /\ chkIn' = opts
             /\ chkOut' = r.chunks
             /\ chkPc' = IF r.ok THEN "done" ELSE "splitting"
    /\ UNCHANGED nonChkVars

\* The caller has used the chunks; the next call may start.
SplitConsumed ==
    /\ chkPc = "done"
    /\ chkPc' = "idle"
    /\ chkIn' = NoInput
    /\ chkOut' = <<>>
    /\ UNCHANGED nonChkVars

\* Texts of two paragraphs: a first paragraph of up to MaxFirstParagraph
\* characters, a blank line, and a short last paragraph.
TwoParagraphTexts ==
    {first \o <<"\n", "\n">> \o last :
        first \in SeqsUpTo(Alphabet \ {"\n"}, MaxFirstParagraph),
        last \in SeqsUpTo(Alphabet \ {"\n"}, MaxLastParagraph)}

\* Options under which such a text fits one chunk, or not, and under which its
\* first paragraph is long enough to be closed at the paragraph break, or not.
ParagraphChunkSizes == {3, 8}
ParagraphMinChunkSizes == {4, 100}

\* smartSplitText(text, options) is called on a text of two paragraphs.
SmartSplitParagraphs ==
    /\ chkPc = "idle"
    /\ \E text \in TwoParagraphTexts, maxChunkSize \in ParagraphChunkSizes,
          overlapSentences \in OverlapCounts, minChunkSize \in ParagraphMinChunkSizes :
         LET opts == [text |-> text, maxChunkSize |-> maxChunkSize,
                      overlapSentences |-> overlapSentences,
                      minChunkSize |-> minChunkSize]
             r    == SmartSplitText(text, opts)
         IN  /\ chkIn' = opts
             /\ chkOut' = r.chunks
             /\ chkPc' = IF r.ok THEN "done" ELSE "splitting"
    /\ UNCHANGED nonChkVars

NextChunkParagraphs ==
    \/ SmartSplitParagraphs
    \/ SplitConsumed

NextChunk ==
    \/ SmartSplit
    \/ SplitConsumed

\* ---------------------------------------------------------------------------
\* Debounce gate of the Telegram bot: bot.ts
\* ---------------------------------------------------------------------------
\* ctx.from.id of the users writing to the bot
Users == {1, 2}

\* No entry of the pendingMessages map for a user.
NoEntry == [present |-> FALSE, messages |-> <<>>]

BotInit ==
    /\ pendingMessages = [u \in Users |-> NoEntry]
    /\ botTimers = [u \in Users |-> 0]
    /\ botInFlight = [u \in Users |-> {}]
    /\ botBatches = [u \in Users |-> <<>>]
    /\ botReceived = [u \in Users |-> <<>>]
    /\ botNextText = 1

\* Variant of the gate that leaves the timer of the entry armed.
ClearTimeout_none(timers) == timers

\* clearTimeout(existing.timeout), line 123: the timer of the entry is armed
\* (it deletes the entry when it fires) and is disarmed.
ClearTimeout(timers) == timers - 1

\* scheduleProcessing, lines 118-143: the message joins the entry of the user
\* (created when there is none), the timer of an existing entry is cleared,
\* and a new timer is armed for config.debounceMs.
ScheduleProcessing(userId, message) ==
    LET existing == pendingMessages[userId]
        entry    == IF existing.present
                    THEN [present |-> TRUE, messages |-> Append(existing.messages, message)]
                    ELSE [present |-> TRUE, messages |-> <<message>>]
        timers   == IF existing.present THEN ClearTimeout(botTimers[userId])
                    ELSE botTimers[userId]
    IN  /\ pendingMessages' = [pendingMessages EXCEPT ![userId] = entry]
        /\ botTimers' = [botTimers EXCEPT ![userId] = timers + 1]

\* bot.on('message:text'), lines 186-196: a text message of a user arrives.
\* The texts are numbered in arrival order.
OnMessageText ==
    /\ botNextText <= MaxTexts
    /\ \E userId \in Users :
         /\ ScheduleProcessing(userId, botNextText)
         /\ botReceived' = [botReceived EXCEPT ![userId] = Append(@, botNextText)]
    /\ botNextText' = botNextText + 1
    /\ UNCHANGED <<botInFlight, botBatches>>
    /\ UNCHANGED nonBotVars

\* The setTimeout callback of a user runs, lines 136-142: the entry is taken
\* out of the map and processMessages starts with its messages.
TimerFiresFor(userId) ==
    /\ botTimers[userId] > 0
    /\ botTimers' = [botTimers EXCEPT ![userId] = @ - 1]
    /\ LET data == pendingMessages[userId]
       IN  IF data.present
           THEN /\ pendingMessages' = [pendingMessages EXCEPT ![userId] = NoEntry]
                /\ botInFlight' = [botInFlight EXCEPT ![userId] = @ \cup {data.messages}]
                /\ botBatches' = [botBatches EXCEPT ![userId] = Append(@, data.messages)]
           ELSE UNCHANGED <<pendingMessages, botInFlight, botBatches>>
    /\ UNCHANGED <<botReceived, botNextText>>
    /\ UNCHANGED nonBotVars

TimerFires == \E userId \in Users : TimerFiresFor(userId)

\* processMessages, lines 46-116, comes to its end (the reply was sent, the
\* bot is offline, or the catch block answered): awaited by nothing but the
\* timer callback that started it.
ProcessMessagesReturns ==
    /\ \E userId \in Users :
         \E batch \in botInFlight[userId] :
             botInFlight' = [botInFlight EXCEPT ![userId] = @ \ {batch}]
    /\ UNCHANGED <<pendingMessages, botTimers, botBatches, botReceived, botNextText>>
    /\ UNCHANGED nonBotVars

NextBot ==
    \/ OnMessageText
    \/ TimerFires
    \/ ProcessMessagesReturns

\* ---------------------------------------------------------------------------
\* POST /vectorize served to several clients at once
\* ---------------------------------------------------------------------------
\* The requests: every client posts the same file of the same agent.
Uploads == 1..MaxUploads

\* The body of request r; the document id is crypto.randomUUID(), line 217.
UploadReq(r) ==
    [agentId |-> "agent1", filename |-> "a.txt", chunks |-> << <<1>> >>, kbId |-> r]

ConInit ==
    /\ conPc = [r \in Uploads |-> "idle"]
    /\ conOverlap = FALSE

\* Some request other than r is between its first and its last statement.
OthersInFlight(r) == \E q \in Uploads \ {r} : conPc[q] \notin {"idle", "done"}

\* What the requests leave alone of the state of the route.
conUnchanged == <<file_processing_cache, token_balance, token_transactions, vecPc,
                  vecReq, vecResponse, vecBefore, vecCount, vecFaults>>

\* Variant of the DELETE that removes nothing.
DeleteDocuments_none(kb, agentId, filename) == kb

\* DELETE FROM knowledge_bases WHERE "agentId" = $1 AND filename = $2
DeleteDocuments(kb, agentId, filename) == kb \ ExistingDocs(kb, agentId, filename)

\* Lines 136-187: a request arrives and passes the charge and balance steps,
\* which read and write no document.
ConVectorize ==
    /\ \E r \in Uploads :
         /\ conPc[r] = "idle"
         /\ conPc' = [conPc EXCEPT ![r] = "existing"]
         /\ conOverlap' = (conOverlap \/ OthersInFlight(r))
    /\ UNCHANGED <<knowledge_bases, document_chunks, chroma>>
    /\ UNCHANGED conUnchanged
    /\ UNCHANGED nonConVars

\* Lines 188-194: the lookup of an existing document.
ConFindExisting ==
    /\ \E r \in Uploads :
         /\ conPc[r] = "existing"
         /\ conPc' = [conPc EXCEPT ![r] =
                        IF ExistingDocs(knowledge_bases, UploadReq(r).agentId,
                                        UploadReq(r).filename) # {}
                        THEN "deleteChroma" ELSE "insertKb"]
    /\ UNCHANGED <<knowledge_bases, document_chunks, chroma, conOverlap>>
    /\ UNCHANGED conUnchanged
    /\ UNCHANGED nonConVars

\* Line 207: chromaService.deleteDocuments(agentId, { source: filename }).
ConDeleteChroma ==
    /\ \E r \in Uploads :
         /\ conPc[r] = "deleteChroma"
         /\ chroma' = {v \in chroma : ~(v.agentId = UploadReq(r).agentId
                                         /\ v.source = UploadReq(r).filename)}
         /\ conPc' = [conPc EXCEPT ![r] = "deleteDb"]
    /\ UNCHANGED <<knowledge_bases, document_chunks, conOverlap>>
    /\ UNCHANGED conUnchanged
    /\ UNCHANGED nonConVars

\* Lines 210-213: the DELETE, cascading to the chunks.
ConDeleteDb ==
    /\ \E r \in Uploads :
         /\ conPc[r] = "deleteDb"
         /\ knowledge_bases' = DeleteDocuments(knowledge_bases, UploadReq(r).agentId,
                                               UploadReq(r).filename)
         /\ document_chunks' =
              {c \in document_chunks : c.knowledgeBaseId \in {k.id : k \in knowledge_bases'}}
         /\ conPc' = [conPc EXCEPT ![r] = "insertKb"]
    /\ UNCHANGED <<chroma, conOverlap>>
    /\ UNCHANGED conUnchanged
    /\ UNCHANGED nonConVars

\* Lines 217-223: INSERT INTO knowledge_bases.
ConInsertKb ==
    /\ \E r \in Uploads :
         /\ conPc[r] = "insertKb"
         /\ knowledge_bases' = knowledge_bases \cup
                {[id |-> UploadReq(r).kbId, agentId |-> UploadReq(r).agentId,
                  filename |-> UploadReq(r).filename]}
         /\ conPc' = [conPc EXCEPT ![r] = "addChroma"]
    /\ UNCHANGED <<document_chunks, chroma, conOverlap>>
    /\ UNCHANGED conUnchanged
    /\ UNCHANGED nonConVars

\* Lines 226-240: chromaService.addDocuments.
ConAddChroma ==
    /\ \E r \in Uploads :
         /\ conPc[r] = "addChroma"
         /\ chroma' = chroma \cup
                {[agentId |-> UploadReq(r).agentId, source |-> UploadReq(r).filename,
                  knowledgeBaseId |-> UploadReq(r).kbId, chunkIndex |-> i - 1,
                  content |-> UploadReq(r).chunks[i]] : i \in 1..Len(UploadReq(r).chunks)}
         /\ conPc' = [conPc EXCEPT ![r] = "insertChunks"]
    /\ UNCHANGED <<knowledge_bases, document_chunks, conOverlap>>
    /\ UNCHANGED conUnchanged
    /\ UNCHANGED nonConVars

\* Lines 246-297: the chunk rows are inserted; the steps after them write no
\* document, and the request is answered.
ConInsertChunks ==
    /\ \E r \in Uploads :
         /\ conPc[r] = "insertChunks"
         /\ document_chunks' = document_chunks
                \cup ChunkRows(UploadReq(r), 1..Len(UploadReq(r).chunks))
         /\ conPc' = [conPc EXCEPT ![r] = "done"]
    /\ UNCHANGED <<knowledge_bases, chroma, conOverlap>>
    /\ UNCHANGED conUnchanged
    /\ UNCHANGED nonConVars

NextCon ==
    \/ ConVectorize
    \/ ConFindExisting
    \/ ConDeleteChroma
    \/ ConDeleteDb
    \/ ConInsertKb
    \/ ConAddChroma
    \/ ConInsertChunks

MemIdle ==
    /\ maxMessages = 1
    /\ keepMessages = 0
    /\ agent_messages = <<>>
    /\ agent_summaries = <<>>
    /\ nextId = 1
    /\ memPc = "idle"
    /\ memLocal = NoLocal
    /\ memCall = NoCall
    /\ memReturn = "none"
    /\ memContext = NoContext

InitVec == VecInit /\ MemIdle /\ SearchInit /\ SwfInit /\ ChunkInit /\ BotInit /\ ConInit

SpecVec == InitVec /\ [][NextVec]_vars

\* /vectorize for a user whose balance starts at or above 0.
InitVecLarge ==
    /\ token_balance \in NonNegativeBalances
    /\ VecIdle /\ MemIdle /\ SearchInit /\ SwfInit /\ ChunkInit /\ BotInit /\ ConInit

SpecVecLarge == InitVecLarge /\ [][NextVecLarge]_vars

InitSearch == SearchInit /\ MemIdle /\ token_balance = 0 /\ VecIdle /\ SwfInit /\ ChunkInit /\ BotInit /\ ConInit

SpecSearch == InitSearch /\ [][NextSearch]_vars

\* search() with the scheduling the runtime guarantees: a settled Promise.all
\* is resumed, and the vector store answers (resolves or rejects).  Nothing
\* bounds how long ftsService.searchDocuments may stay pending.
SpecSearchLive ==
    /\ InitSearch
    /\ [][NextSearch]_vars
    /\ WF_vars(SearchReturns)
    /\ WF_vars(VectorResolves \/ VectorRejects)

SpecFallback == InitSearch /\ [][NextFallback]_vars

SpecChunk == InitSearch /\ [][NextChunk]_vars

SpecChunkParagraphs == InitSearch /\ [][NextChunkParagraphs]_vars

InitBot ==
    /\ BotInit /\ ConInit
    /\ MemIdle /\ token_balance = 0 /\ VecIdle /\ SearchInit /\ SwfInit /\ ChunkInit

SpecBot == InitBot /\ [][NextBot]_vars

\* The gate with the scheduling Node.js guarantees: an armed timer that is
\* not cleared fires.
SpecBotLive ==
    /\ InitBot
    /\ [][NextBot]_vars
    /\ \A userId \in Users : WF_vars(TimerFiresFor(userId))

InitCon ==
    /\ ConInit /\ BotInit
    /\ MemIdle /\ token_balance = 0 /\ VecIdle /\ SearchInit /\ SwfInit /\ ChunkInit

SpecCon == InitCon /\ [][NextCon]_vars

InitMem == MemInit /\ token_balance = 0 /\ VecIdle /\ SearchInit /\ SwfInit /\ ChunkInit /\ BotInit /\ ConInit

SpecMem == InitMem /\ [][NextMem]_vars

\* ---------------------------------------------------------------------------
\* Properties of the conversation memory
\* ---------------------------------------------------------------------------
\* The last saveMessage call has returned to its caller.
MemReturned == memPc = "idle" /\ memReturn = "returned"

\* The call in flight / last finished stored the message with id memCall.id
\* on top of the rows that existed when it started.
MemInsertedOnTop ==
    /\ Len(agent_messages) = Len(memCall.before) + 1
    /\ SubSeq(agent_messages, 1, Len(memCall.before)) = memCall.before
    /\ agent_messages[Len(agent_messages)].id = memCall.id

\* C1: when saveMessage stores the message that brings the count to
\* maxMessages (0 <= keepMessages < maxMessages) and the summarization call
\* returns a summary, then on return the session has exactly keepMessages
\* messages and exactly one more summary record.
C1_CompactsToKeepMessages ==
    (/\ MemReturned
     /\ keepMessages < maxMessages
     /\ Len(memCall.before) + 1 = maxMessages
     /\ memCall.llm = "ok"
     /\ ~memCall.dbFault)
    => /\ Len(agent_messages) = keepMessages
       /\ Len(agent_summaries) = memCall.sumsBefore + 1

\* C2: the message is stored before any compaction step runs, and a throwing
\* completion call leaves the log alone: the inserted message stays, nothing
\* is deleted, no summary is added, and saveMessage returns normally.
C2_FailedSummarizationKeepsLog ==
    /\ (memPc \in {"check", "summarize", "complete", "persist"}) => MemInsertedOnTop
    /\ (memPc = "idle" /\ memCall.llm = "throw")
         => /\ MemInsertedOnTop
            /\ Len(agent_summaries) = memCall.sumsBefore
            /\ memReturn = "returned"

C2_Witness ==
    /\ memPc = "idle"
    /\ memCall.llm = "throw"
    /\ Len(agent_messages) > maxMessages
    /\ Len(agent_summaries) > 0

\* C3: with keepMessages < maxMessages and every summarization succeeding,
\* the stored count seen after each saveMessage returns is below maxMessages.
C3_BoundedAfterReturn ==
    (/\ MemReturned
     /\ keepMessages < maxMessages
     /\ ~CallFailed(memCall))
    => Len(agent_messages) < maxMessages

AttemptFailed ==
    /\ memPc = "idle"
    /\ memCall.sent # <<>>
    /\ (memCall.llm \in {"throw", "empty"} \/ memCall.dbFault)

\* The last saveMessage call returned, and it had found at least maxMessages
\* messages stored: the state a failed compaction leaves behind.
RetryReturned ==
    /\ MemReturned
    /\ memCall.id # 0
    /\ Len(memCall.before) >= maxMessages

\* C20: a failed compaction leaves at least maxMessages messages stored; a
\* saveMessage that finds that many stored attempts a compaction again; and
\* when its completion call succeeds the session has one more summary record
\* and fewer messages than before the compaction.
C20_FailedCompactionIsRetried ==
    /\ AttemptFailed => Len(agent_messages) >= maxMessages
    /\ RetryReturned => memCall.sent # <<>>
    /\ (RetryReturned /\ memCall.llm = "ok" /\ ~memCall.dbFault)
         => /\ Len(agent_summaries) = memCall.sumsBefore + 1
            /\ Len(agent_messages) < Len(memCall.before) + 1

C20_Witness ==
    /\ RetryReturned
    /\ memCall.failedBefore
    /\ memCall.llm = "ok"
    /\ ~memCall.dbFault
    /\ Len(agent_summaries) = 1
    /\ Len(agent_messages) = keepMessages
    /\ keepMessages >= 1

\* The ids of the stored messages, and of the messages the session held when
\* the last saveMessage call had inserted its own.
LogIds == [i \in 1..Len(agent_messages) |-> agent_messages[i].id]

CallIds ==
    [i \in 1..Len(memCall.before) |-> memCall.before[i].id]
        \o (IF memCall.id = 0 THEN <<>> ELSE <<memCall.id>>)

\* The last saveMessage call attempted a compaction and has ended.
CompactionEnded == memPc = "idle" /\ memCall.sent # <<>>

\* C21: in every compaction (keepMessages < maxMessages) a new summary record
\* is persisted if and only if the log is truncated to its most recent
\* keepMessages messages in that compaction: when the compaction has ended
\* there is never a new summary with an untruncated log, nor a truncated log
\* without a new summary.
C21_SummaryIffTruncated ==
    (CompactionEnded /\ keepMessages < maxMessages)
    => ((Len(agent_summaries) = memCall.sumsBefore + 1)
        <=> (LogIds = SubSeq(CallIds, Len(CallIds) - keepMessages + 1, Len(CallIds))))

\* C22: over serialized saveMessage calls, failed compaction attempts
\* included, every message a compaction deletes was part of the transcript
\* sent to the summarizer in that same compaction.
C22_DeletedWasSummarized ==
    \A id \in SeqToSet(CallIds) \ SeqToSet(LogIds) : id \in SeqToSet(memCall.sent)

\* A turn has saved its user message (saveMessage returned) and read the
\* memory context: lines 60-64 of processMessages.
TurnContextRead ==
    /\ memContext.valid
    /\ memReturn = "returned"
    /\ memCall.id # 0
    /\ Len(agent_messages) > 0
    /\ agent_messages[Len(agent_messages)].id = memCall.id
    /\ agent_messages[Len(agent_messages)].messageType = "HUMAN"

\* The chat messages the turn sends to the LLM.
ChatMessagesSent ==
    ChatMessagesFor(memContext, agent_messages[Len(agent_messages)])

\* C29: in every processed turn the current user message appears exactly once
\* among the chat messages sent to the LLM: it is not both among the
\* recentMessages read from memory and appended as the final user message.
C29_CurrentMessageOnce ==
    TurnContextRead =>
        Cardinality({i \in 1..Len(ChatMessagesSent) :
                        ChatMessagesSent[i].id = memCall.id}) = 1

\* ---------------------------------------------------------------------------
\* Properties of the cost model and of POST /vectorize
\* ---------------------------------------------------------------------------
\* The hash calculateFileCharge computes for a chunk array (part_006 lines 18-20).
ChargeContentHash(chunks) == Sha256Hex(JoinTexts(chunks, <<0>>))

\* calculateFileCharge has just returned for the request in flight.
ChargeComputed == vecPc = "balance"

\* Indexes of the version records of an (agentId, filename) pair.
VersionsOf(agentId, filename) ==
    {i \in 1..Len(file_processing_cache) :
        /\ file_processing_cache[i].agent_id = agentId
        /\ file_processing_cache[i].filename = filename}

\* Some version record of the agent carries this content hash.
AgentHasHash(agentId, hash) ==
    \E i \in 1..Len(file_processing_cache) :
        /\ file_processing_cache[i].agent_id = agentId
        /\ file_processing_cache[i].content_hash = hash

\* C5: in the vectorize flow a version record is written only after the charge
\* was deducted: when deductPuBalance fails, the request writes no record.
C5_NoRecordWithoutDeduction ==
    vecReq.deducted = "no" => file_processing_cache = vecBefore.cache

\* C6: every version record stores the hash calculateFileCharge computes for the
\* chunk texts that were ingested, and once a record of an agent exists, a
\* calculateFileCharge for that agent with the same chunk texts returns
\* puCost = 0 and chargePercentage = 0, whatever the filename.
C6_DuplicateIsFree ==
    /\ \A i \in 1..Len(file_processing_cache) :
         file_processing_cache[i].content_hash
             = ChargeContentHash(file_processing_cache[i].texts)
    /\ (/\ ChargeComputed
        /\ \E i \in 1..Len(file_processing_cache) :
             /\ file_processing_cache[i].agent_id = vecReq.agentId
             /\ file_processing_cache[i].texts = vecReq.chunks)
       => /\ vecReq.chargeInfo.puCost = 0
          /\ vecReq.chargeInfo.chargePercentage = 0

C6_Witness ==
    /\ ChargeComputed
    /\ Len(file_processing_cache) = 2
    /\ file_processing_cache[1].agent_id = vecReq.agentId
    /\ file_processing_cache[1].texts = vecReq.chunks
    /\ Len(vecReq.chunks) = 2
    /\ file_processing_cache[1].filename # vecReq.filename
    /\ file_processing_cache[2].texts # vecReq.chunks
    /\ vecReq.chargeInfo.puCost = 0

\* C7 as stated: calculateFileCharge for an (agentId, filename) pair without a
\* version record returns chargePercentage = 100, whatever the content and
\* whatever was ingested under the agent's other filenames.
C7_UnseenPairChargedInFull ==
    (ChargeComputed /\ VersionsOf(vecReq.agentId, vecReq.filename) = {})
    => vecReq.chargeInfo.chargePercentage = 100

\* C7 amended: for a pair without a version record chargePercentage is 100
\* unless a record of the same agent (under another filename) already has the
\* content hash, in which case it is 0.
C7_UnseenPairFullUnlessDuplicate ==
    (ChargeComputed /\ VersionsOf(vecReq.agentId, vecReq.filename) = {})
    => vecReq.chargeInfo.chargePercentage =
         (IF AgentHasHash(vecReq.agentId, ChargeContentHash(vecReq.chunks))
          THEN 0 ELSE 100)

C7_Witness ==
    /\ ChargeComputed
    /\ VersionsOf(vecReq.agentId, vecReq.filename) = {}
    /\ \E i \in 1..Len(file_processing_cache) :
         file_processing_cache[i].agent_id = vecReq.agentId
    /\ \E i \in 1..Len(file_processing_cache) :
         /\ file_processing_cache[i].agent_id # vecReq.agentId
         /\ file_processing_cache[i].texts = vecReq.chunks
    /\ vecReq.chargeInfo.chargePercentage = 100

\* C8: chargePercentage is one of 0, 20, 70, 100 and puCost never exceeds the
\* new-file cost; when the hash is new for the agent and the filename has a
\* previous version, with diffPercent = 100 - similarity(previousHash, newHash)
\* chargePercentage is 20 below 30, 70 from 30 to below 60 and 100 otherwise,
\* and puCost is chargePercentage/100 of the new-file cost of the content.
C8_TieredCharge ==
    ChargeComputed =>
        LET newHash  == ChargeContentHash(vecReq.chunks)
            versions == VersionsOf(vecReq.agentId, vecReq.filename)
            newCost  == CalculateFileCharge(<<>>, vecReq.agentId, vecReq.filename,
                                            vecReq.chunks).puCost
            pct      == vecReq.chargeInfo.chargePercentage
            puCost   == vecReq.chargeInfo.puCost
        IN  /\ pct \in {0, 20, 70, 100}
            /\ puCost <= newCost
            /\ (~AgentHasHash(vecReq.agentId, newHash) /\ versions # {})
               => LET latest == CHOOSE i \in versions : \A j \in versions : j <= i
                      previousHash == file_processing_cache[latest].content_hash
                      diffPercent  == 100 - CalculateStringHashSimilarity(previousHash, newHash)
                  IN  /\ diffPercent < 30 => pct = 20
                      /\ (diffPercent >= 30 /\ diffPercent < 60) => pct = 70
                      /\ diffPercent >= 60 => pct = 100
                      /\ 100 * puCost = pct * newCost

C8_Witness ==
    /\ ChargeComputed
    /\ Len(file_processing_cache) = 2
    /\ VersionsOf(vecReq.agentId, vecReq.filename) = {1, 2}
    /\ 100 - CalculateStringHashSimilarity(file_processing_cache[2].content_hash,
                                           ChargeContentHash(vecReq.chunks)) = 30
    /\ vecReq.chargeInfo.chargePercentage = 70
    /\ vecReq.chargeInfo.puCost = 140

\* C9: when a version-cache read of calculateFileCharge fails, no charge is
\* returned and the request ends with an error before any document row,
\* vector, chunk, balance or version-cache change.
C9_CacheReadFailureAborts ==
    vecReq.cacheReadFailed
    => /\ vecPc = "idle"
       /\ vecResponse = 500
       /\ vecReq.chargeInfo = NoCharge
       /\ Stores = vecBefore

C9_Witness ==
    /\ vecReq.cacheReadFailed
    /\ vecResponse = 500
    /\ Len(file_processing_cache) > 0
    /\ ExistingDocs(knowledge_bases, vecReq.agentId, vecReq.filename) # {}

\* The knowledge_bases rows, chunk rows and vectors of one (agentId, filename)
\* pair held by the stores st.
DocumentOf(st, agentId, filename) ==
    LET docs == ExistingDocs(st.kb, agentId, filename)
    IN  [kb     |-> docs,
         chunks |-> {c \in st.chunks : c.knowledgeBaseId \in {k.id : k \in docs}},
         chroma |-> {v \in st.chroma : v.agentId = agentId /\ v.source = filename}]

\* C26: deductPuBalance is all-or-nothing: when it has returned, it returned
\* true exactly when the balance was decremented by puAmount and a matching
\* DEDUCTION row was appended to token_transactions, and whenever it returned
\* false the balance is the one it found.
C26_DeductAllOrNothing ==
    (vecPc = "saveCache") =>
        LET puAmount == vecReq.chargeInfo.puCost
            row == [type |-> "DEDUCTION", amount |-> 0 - puAmount,
                    balance_before |-> vecBefore.balance,
                    balance_after |-> vecBefore.balance - puAmount,
                    filename |-> vecReq.filename]
        IN  /\ (vecReq.deducted = "yes")
                  <=> (/\ token_balance = vecBefore.balance - puAmount
                       /\ token_transactions = Append(vecBefore.tx, row))
            /\ (vecReq.deducted = "no") => token_balance = vecBefore.balance

\* C27: after any sequence of vectorize requests by a user whose balance
\* starts at or above 0, the token balance is never below the -5 PU soft limit
\* of checkPuBalance.
C27_OverdraftLimit == token_balance >= 0 - 5 * PuUnit

\* C28: a vectorize request for a pair that already has a document and that
\* ends with an error response leaves that document (knowledge_bases row,
\* chunks, vectors) in place and deducts no charge.
C28_FailedVectorizeChangesNothing ==
    (/\ vecPc = "idle"
     /\ vecCount > 0
     /\ vecResponse = 500
     /\ ExistingDocs(vecBefore.kb, vecReq.agentId, vecReq.filename) # {})
    => LET old == DocumentOf(vecBefore, vecReq.agentId, vecReq.filename)
       IN  /\ old.kb \subseteq knowledge_bases
           /\ old.chunks \subseteq document_chunks
           /\ old.chroma \subseteq chroma
           /\ token_balance = vecBefore.balance

\* ---------------------------------------------------------------------------
\* Properties of the debounce gate
\* ---------------------------------------------------------------------------
RECURSIVE Concat(_)
\* The batches one after the other.
Concat(batches) ==
    IF Len(batches) = 0 THEN <<>> ELSE batches[1] \o Concat(Tail(batches))

\* C23: for each user at most one processMessages invocation is in flight at
\* any time: a text arriving while an earlier batch of the user is still being
\* processed never starts a second, concurrent turn.
C23_OneTurnInFlight ==
    \A userId \in Users : Cardinality(botInFlight[userId]) <= 1

\* The safety half of C24: the batches passed to processMessages followed by
\* the messages still pending are the messages received, in arrival order, so
\* every message is in exactly one batch; and at most one timer is armed per
\* user, exactly when an entry is pending.
BatchesAreTheMessages ==
    \A userId \in Users :
        /\ Concat(botBatches[userId]) \o pendingMessages[userId].messages
               = botReceived[userId]
        /\ \A i \in 1..Len(botBatches[userId]) : Len(botBatches[userId][i]) > 0
        /\ botTimers[userId] <= 1
        /\ (botTimers[userId] = 1) <=> pendingMessages[userId].present

\* C24: debounce batching loses and duplicates nothing: every text message
\* received for a user is passed to processMessages in exactly one batch, in
\* arrival order; each new message cancels the pending timer, so at most one
\* timer per user is armed; and a pending batch is processed once no further
\* message of the user arrives.
C24_DebounceBatching ==
    /\ []BatchesAreTheMessages
    /\ \A userId \in Users :
         pendingMessages[userId].present ~> ~pendingMessages[userId].present

C24_Witness ==
    \E userId \in Users :
        /\ Len(botBatches[userId]) = 2
        /\ Len(botBatches[userId][1]) = 2
        /\ Len(botBatches[userId][2]) = 1
        /\ ~pendingMessages[userId].present
        /\ Len(botReceived[userId]) = 3

\* ---------------------------------------------------------------------------
\* Properties of concurrent /vectorize requests
\* ---------------------------------------------------------------------------
\* No request is between its first and its last statement.
ConSettled == \A r \in Uploads : conPc[r] \in {"idle", "done"}

\* The knowledge_bases rows of the pair every request posts.
PairDocs == ExistingDocs(knowledge_bases, UploadReq(1).agentId, UploadReq(1).filename)

C10_TopLimitByScore ==
    srchPc = "done" =>
        LET n == Len(srchOut)
            returned == {srchOut[i].content : i \in 1..n}
        IN  /\ n <= srchLimit
            /\ n = Min(srchLimit, Len(srchMerged))
            /\ \A i \in 1..n : \A j \in 1..n : i < j => srchOut[i].score >= srchOut[j].score
            /\ \A i \in 1..n : \E k \in 1..Len(srchMerged) : srchMerged[k] = srchOut[i]
            /\ Cardinality(returned) = n
            /\ \A k \in 1..Len(srchMerged) :
                 srchMerged[k].content \notin returned
                 => \A i \in 1..n : srchMerged[k].score <= srchOut[i].score

C10_Witness ==
    /\ srchPc = "done"
    /\ Len(srchMerged) > srchLimit
    /\ Len(srchOut) = srchLimit
    /\ srchLimit >= 2
    /\ srchOut[1].score > srchOut[2].score
    /\ srchOut[1].content # srchMerged[1].content
    /\ \E k \in 1..Len(srchMerged) :
         /\ \A i \in 1..Len(srchOut) : srchOut[i].content # srchMerged[k].content
         /\ srchMerged[k].score < srchOut[Len(srchOut)].score

\* The 0-based ranks at which a ranking holds this content.
RanksOf(results, content) ==
    {j - 1 : j \in {i \in 1..Len(results) : results[i] = content}}

\* What one ranking may contribute to the score of a content when a content
\* counts once per ranking: nothing when the ranking does not hold it,
\* 1 / (60 + r + 1) for a rank r it has there otherwise.
RankScores(results, content) ==
    IF RanksOf(results, content) = {} THEN {0}
    ELSE {RrfScore(r) : r \in RanksOf(results, content)}

\* The content is the first result of the ranking.
AtRankZero(results, content) == Len(results) > 0 /\ results[1] = content

\* C11: the fused score of a returned entry is the sum, over the rankings that
\* hold its content, of 1 / (60 + r + 1) for its rank r there; so an entry at
\* rank 0 of both rankings scores at least 2/61 and an entry at rank 0 of only
\* one ranking scores less than that.
C11_FusedScoreIsRankSum ==
    srchPc = "done" =>
        \A i \in 1..Len(srchOut) :
            LET e == srchOut[i]
                topV == AtRankZero(srchVector.results, e.content)
                topF == AtRankZero(srchFts.results, e.content)
            IN  /\ e.score \in {a + b : a \in RankScores(srchVector.results, e.content),
                                        b \in RankScores(srchFts.results, e.content)}
                /\ (topV /\ topF) => e.score >= 2 * RrfScore(0)
                /\ (topV # topF) => e.score < 2 * RrfScore(0)

\* C12: every content is returned at most once; an entry is tagged "both"
\* exactly when both rankings hold its content, and an entry held by one
\* ranking only carries that ranking's tag and its single-source score.
C12_MergedOnceAndTagged ==
    srchPc = "done" =>
        /\ \A i \in 1..Len(srchOut) : \A j \in 1..Len(srchOut) :
             i # j => srchOut[i].content # srchOut[j].content
        /\ \A i \in 1..Len(srchOut) :
             LET e == srchOut[i]
                 inV == RanksOf(srchVector.results, e.content) # {}
                 inF == RanksOf(srchFts.results, e.content) # {}
             IN  /\ (e.source = "both") <=> (inV /\ inF)
                 /\ (inV /\ ~inF) => /\ e.source = "vector"
                                     /\ e.score \in RankScores(srchVector.results, e.content)
                 /\ (inF /\ ~inV) => /\ e.source = "fts"
                                     /\ e.score \in RankScores(srchFts.results, e.content)

RECURSIVE Dedup(_)
\* The ranking with every content kept at its first (best) rank only.
Dedup(results) ==
    IF Len(results) = 0 THEN <<>>
    ELSE LET front == Dedup(SubSeq(results, 1, Len(results) - 1))
             last  == results[Len(results)]
         IN  IF \E i \in 1..Len(front) : front[i] = last THEN front
             ELSE Append(front, last)

\* The contents of the returned entries, in order.
ContentsOf(entries) == [i \in 1..Len(entries) |-> entries[i].content]

\* C13: when the lexical sub-search throws and the vector one succeeds,
\* search returns the vector ranking (its contents in vector order, cut to
\* limit); when the vector sub-search throws and the lexical one succeeds, it
\* returns the lexical ranking.
C13_FailedSourceLeavesOtherRanking ==
    srchPc = "done" =>
        /\ (srchFts.failed /\ ~srchVector.failed)
             => ContentsOf(srchOut) = JsSliceTo(Dedup(srchVector.results), srchLimit)
        /\ (srchVector.failed /\ ~srchFts.failed)
             => ContentsOf(srchOut) = JsSliceTo(Dedup(srchFts.results), srchLimit)

\* C14: neither search nor searchWithFallback lets an exception reach its
\* caller, and when every backend that was consulted failed the value
\* returned is the empty list.
C14_AllBackendsFailedGivesEmptyList ==
    /\ (srchPc = "done" /\ srchVector.failed /\ srchFts.failed) => srchOut = <<>>
    /\ swfPc = "done"
         => /\ swfCall.returned = "returned"
            /\ (swfCall.mode = "hybrid" /\ srchVector.failed /\ srchFts.failed)
                 => swfOut = <<>>
            /\ (swfCall.mode = "fallback" /\ swfCall.vectorFailed) => swfOut = <<>>

\* C15: a search() call that has been issued eventually returns, even when
\* one of its sub-searches never settles.
C15_SearchEventuallyReturns == (srchPc = "pending") ~> (srchPc = "done")

\* ---------------------------------------------------------------------------
\* Properties of the chunker
\* ---------------------------------------------------------------------------
RECURSIVE SourceParts(_, _)
\* The sentences of the source in order, every sentence longer than maxSize
\* replaced by its pieces.
SourceParts(allSentences, maxSize) ==
    IF Len(allSentences) = 0 THEN <<>>
    ELSE SplitLongSentence(allSentences[1].text, maxSize).parts
             \o SourceParts(Tail(allSentences), maxSize)

RECURSIVE FreshOf(_)
\* The sentences of the chunks in order, without the overlap sentences each
\* chunk carries over from the chunk before it.
FreshOf(chunks) ==
    IF Len(chunks) = 0 THEN <<>> ELSE chunks[1].fresh \o FreshOf(Tail(chunks))

\* C16: with maxChunkSize >= 1 no returned chunk is longer than
\* maxChunkSize * 1.2, and only the last chunk may be longer than maxChunkSize.
C16_ChunkSizeBound ==
    (chkPc = "done" /\ chkIn.maxChunkSize >= 1) =>
        \A i \in 1..Len(chkOut) :
            /\ 5 * Len(chkOut[i].text) <= 6 * chkIn.maxChunkSize
            /\ Len(chkOut[i].text) > chkIn.maxChunkSize => i = Len(chkOut)

\* C17: smartSplitText returns no chunk for an empty or whitespace-only text;
\* for any other text it returns at least one chunk, the chunks are indexed
\* 0..n-1 in order, no chunk text is empty, and the chunks without their
\* carried-over overlap sentences are exactly the source sentences (or
\* long-sentence pieces) in order.
C17_ChunksCoverSourceInOrder ==
    chkPc = "done" =>
        IF Len(Trim(chkIn.text)) = 0 THEN chkOut = <<>>
        ELSE /\ Len(chkOut) >= 1
             /\ \A i \in 1..Len(chkOut) :
                  /\ chkOut[i].index = i - 1
                  /\ Len(chkOut[i].text) > 0
             /\ FreshOf(chkOut) = SourceParts(AllSentences(chkIn.text), chkIn.maxChunkSize)

\* C18: with overlapSentences = k > 0, every chunk n+1 starts with the last
\* min(k, sentenceCount of chunk n) sentences of chunk n, whether chunk n was
\* closed by overflow or at a paragraph boundary.
C18_SentenceOverlap ==
    (chkPc = "done" /\ chkIn.overlapSentences > 0) =>
        \A n \in 1..(Len(chkOut) - 1) :
            LET closed == chkOut[n]
                next   == chkOut[n + 1]
                m      == Min(chkIn.overlapSentences, closed.sentenceCount)
            IN  /\ closed.closedBy \in {"overflow", "paragraph"}
                /\ closed.sentenceCount = Len(closed.sentences)
                /\ closed.text = Trim(Join(closed.sentences, <<" ">>))
                /\ next.sentenceCount >= m
                /\ SubSeq(next.sentences, 1, m)
                     = SubSeq(closed.sentences, closed.sentenceCount - m + 1,
                              closed.sentenceCount)

C18_Witness ==
    /\ chkPc = "done"
    /\ chkIn.overlapSentences = 1
    /\ \E n \in 1..(Len(chkOut) - 1) :
         /\ chkOut[n].closedBy = "overflow"
         /\ chkOut[n].sentenceCount = 2
         /\ chkOut[n].sentences[1] # chkOut[n].sentences[2]
         /\ chkOut[n + 1].sentences[1] = chkOut[n].sentences[2]
         /\ chkOut[n + 1].sentenceCount = 2

\* C19: smartSplitText returns for every text and every integer maxChunkSize,
\* minChunkSize and overlapSentences, and every piece of a sentence longer
\* than maxChunkSize is at most maxChunkSize long.
C19_AlwaysReturns ==
    /\ chkPc # "splitting"
    /\ chkPc = "done" =>
         LET parts == SourceParts(AllSentences(chkIn.text), chkIn.maxChunkSize)
         IN  \A i \in 1..Len(parts) : Len(parts[i]) <= chkIn.maxChunkSize

\* C30: every returned chunk is a contiguous run of the source sentence
\* sequence: inside one chunk no sentence occurrence is repeated, also when the
\* short trailing chunk was merged into its predecessor, and sentenceCount is
\* the number of distinct source sentences (or long-sentence pieces) the
\* chunk covers.
C30_ChunkIsContiguousRun ==
    chkPc = "done" =>
        \A i \in 1..Len(chkOut) :
            LET positions == chkOut[i].positions
            IN  /\ \A j \in 1..(Len(positions) - 1) : positions[j + 1] = positions[j] + 1
                /\ chkOut[i].sentenceCount = Cardinality(SeqToSet(positions))

====
